---- MODULE Spec2Model ----
(***************************************************************************)
(* Model of the analysis core of paid-screener: the signal aggregator      *)
(* (analytics/signals/generator.py), the candlestick cascade               *)
(* (analytics/candlestick/patterns.py), the RSI calculator                 *)
(* (analytics/indicators/rsi.py), the level clustering and the breakout    *)
(* test (analytics/levels/support_resistance.py) and the pattern detectors *)
(* (analytics/patterns/chart_patterns.py, head_shoulders.py).              *)
(*                                                                         *)
(* Numbers.  Scores, strengths and confidences are kept in hundredths      *)
(* (0.3 is 30), so every comparison of the code is an integer comparison;  *)
(* ratios are compared by cross-multiplication.  The sums the aggregator   *)
(* forms (0.3, 0.4, 0.1 and 0.2 * k/5) compare in IEEE doubles exactly as  *)
(* their hundredths do.                                                    *)
(***************************************************************************)
EXTENDS Integers, Sequences, FiniteSets, TLC

VARIABLES
    \* ---- SignalGenerator.generate_signal ----
    gen_pc,      \* "idle" | "returned"
    df,          \* the bar series as generate_signal reads it (see DfOf)
    on_df,       \* what the three detectors return on df
    detected,    \* the detector outputs generate_signal obtained, if it ran them
    scores,      \* buy/sell scores before and after the volume bonus
    decision,    \* return value of _evaluate_signals
    result       \* return value of generate_signal

genVars == <<gen_pc, df, on_df, detected, scores, decision, result>>

VARIABLES
    \* ---- CandlestickPatternAnalyzer.analyze ----
    cs_pc,       \* "idle" | "returned"
    cs_df,       \* the bar series handed to analyze
    cs_result    \* return value of analyze

csVars == <<cs_pc, cs_df, cs_result>>

VARIABLES
    \* ---- RSICalculator ----
    rsi_pc,      \* "idle" | "returned"
    rsi_period,  \* self.period
    rsi_closes,  \* df["close"] of the series handed to analyze
    rsi_series,  \* return value of calculate
    rsi_value,   \* the value handed to get_signal
    rsi_info     \* return value of get_signal

rsiVars == <<rsi_pc, rsi_period, rsi_closes, rsi_series, rsi_value, rsi_info>>

VARIABLES
    \* ---- SupportResistanceAnalyzer.find_levels ----
    lv_pc,       \* "idle" | "returned"
    lv_df,       \* the bar series handed to find_levels (high and low of each bar)
    lv_groups,   \* price_groups of both sides when their loops have ended
    lv_levels    \* return value of find_levels

lvVars == <<lv_pc, lv_df, lv_groups, lv_levels>>

VARIABLES
    \* ---- SupportResistanceAnalyzer.check_breakout ----
    bk_pc,       \* "idle" | "returned"
    bk_df,       \* the bar series handed to check_breakout (high, low, volume)
    bk_levels,   \* the levels handed to check_breakout
    bk_confirm,  \* volume_confirmation
    bk_result    \* return value of check_breakout

bkVars == <<bk_pc, bk_df, bk_levels, bk_confirm, bk_result>>

VARIABLES
    \* ---- ChartPatternDetector and HeadShouldersPattern ----
    pt_pc,       \* "idle" | "returned"
    pt_df,       \* the bar series handed to the detector (high, low, volume)
    pt_fit,      \* what np.polyfit and np.std yield on the windows of pt_df
    pt_call,     \* the detector that was called
    pt_result    \* its return value

ptVars == <<pt_pc, pt_df, pt_fit, pt_call, pt_result>>

VARIABLES
    \* ---- one series handed to the detectors again and again ----
    ss_pc,       \* "open" while detectors are called on the series
    ss_df,       \* the bar series (open, high, low, close, volume)
    ss_fit,      \* what np.polyfit and np.std yield on the windows of ss_df
    ss_levels,   \* the levels handed to check_breakout
    ss_calls,    \* how often each detector was called
    ss_first,    \* what the first call of each detector returned
    ss_last      \* what the latest call of each detector returned

ssVars == <<ss_pc, ss_df, ss_fit, ss_levels, ss_calls, ss_first, ss_last>>

VARIABLES
    \* ---- BaseParser.validate_ohlcv ----
    vd_pc,       \* "idle" | "returned" | "raised"
    vd_columns,  \* df.columns of the frame handed to validate_ohlcv
    vd_df,       \* its rows (timestamp, volume, whether a value is missing)
    vd_result    \* the rows of the returned frame

vdVars == <<vd_pc, vd_columns, vd_df, vd_result>>

VARIABLES
    \* ---- retry_with_backoff ----
    rt_pc,              \* "loop" | "returned" | "raised"
    rt_max,             \* max_attempts
    rt_initial_delay,   \* initial_delay
    rt_factor,          \* backoff_factor
    rt_func,            \* what the wrapped function does on its k-th invocation
    rt_attempt,         \* attempt, the loop variable
    rt_delay,           \* delay
    rt_last_exception,  \* last_exception
    rt_log,             \* the invocations and the sleeps so far, in order
    rt_result           \* the value returned or the exception raised by the wrapper

rtVars == <<rt_pc, rt_max, rt_initial_delay, rt_factor, rt_func, rt_attempt, rt_delay,
            rt_last_exception, rt_log, rt_result>>

VARIABLES
    \* ---- PaidScreener.analyze_asset ----
    an_pc,       \* "idle" | "returned"
    an_df,       \* the stored series: its length and what each analyzer returns on it
    an_results,  \* the keys of the dictionary analyze_asset returns
    an_saved,    \* the Database methods that were called and returned, in order
    an_error     \* the exception caught at line 166, or None

anVars == <<an_pc, an_df, an_results, an_saved, an_error>>

VARIABLES
    \* ---- Database: the candles of one asset and timeframe ----
    db_candles,  \* the rows of table candles, in the order of their ids
    db_fetches,  \* the fetch_and_save_data calls so far
    db_df        \* the rows of the frame the last get_candles returned

dbVars == <<db_candles, db_fetches, db_df>>

vars == <<genVars, csVars, rsiVars, lvVars, bkVars, ptVars, ssVars, vdVars, rtVars, anVars, dbVars>>

\* Python's None: for a label; for a signal record; for a pattern record
None == "None"
\* generate_signal and _evaluate_signals returning None; prices of a signal
\* are kept in thousandths of the price unit, probabilities in hundredths
NoSignal ==
    [signal_type |-> None, strength |-> None, entry_price |-> 0, stop_loss |-> 0,
     take_profit |-> <<>>, confidence |-> 0]
NoPattern == [pattern_direction |-> None, target_price |-> 0]
NoLevels == [support_levels |-> <<>>, resistance_levels |-> <<>>]

Abs(x) == IF x < 0 THEN -x ELSE x

Min2(a, b) == IF a <= b THEN a ELSE b

Max2(a, b) == IF a >= b THEN a ELSE b

----------------------------------------------------------------------------
(* Bounds of the model *)

\* most levels per side handed to the aggregator (find_levels returns <= 5)
MaxLevels == 2

\* longest shadow of a bar handed to the candlestick analyzer
MaxShadow == 5

\* largest RSI period besides the default one; series have up to two bars
\* more than the period needs, closes lie on a grid of MaxPeriod + 1 prices
MaxPeriod == 3

\* get_signal is tried on the RSI values k / RsiGrid in [0, 100]
RsiGrid == 2

\* bars of a series for find_levels that are drawn freely; the series is
\* these bars alone, or these bars filled up to 20 bars with one repeated bar
MaxFree == 3

\* buckets of a series for find_levels whose pivots lie far apart: more
\* than the five levels a side returns
MaxBuckets == 7

----------------------------------------------------------------------------
(* Program constants *)

MinBars == 100            \* generate_signal: len(df) < 100
MinConfidence == 60       \* SignalGenerator.__init__: min_confidence = 0.6
CandleWeight == 30        \* buy_score += 0.3
LevelWeight == 20         \* buy_score += 0.2 * strength
PatternWeight == 40       \* buy_score += 0.4
VolumeWeight == 10        \* buy_score += 0.1
DecisionThreshold == 50   \* buy_score > 0.5
MinTouches == 2           \* SupportResistanceAnalyzer.__init__: min_touches = 2
ToleranceMilli == 5       \* SupportResistanceAnalyzer.__init__: price_tolerance = 0.005
LevelsMinBars == 20       \* find_levels: len(df) < 20
TopLevels == 5            \* return levels[:5]
StrengthCap == 5          \* strength = min(touches / 5.0, 1.0)
VolumeWindow == 20        \* _check_volume: tail(20)

----------------------------------------------------------------------------
(* SupportResistanceAnalyzer: strength of a reported level, in hundredths *)

\* strength = min(touches / 5.0, 1.0)
LevelStrength(touches) == Min2((touches * 100) \div StrengthCap, 100)

MkLevel(price, touches) ==
    [price |-> price, strength |-> LevelStrength(touches), touches |-> touches]

----------------------------------------------------------------------------
(* SignalGenerator *)

BullishLabels == {"Hammer", "Bullish Engulfing", "Morning Star"}
BearishLabels == {"Shooting Star", "Bearish Engulfing", "Evening Star"}
CandleLabels == BullishLabels \cup BearishLabels \cup {"Doji"}

\* max(levels, key=price) / min(levels, key=price): the first extreme element
RECURSIVE MaxByPrice(_)
MaxByPrice(ls) ==
    IF Len(ls) = 1 THEN ls[1]
    ELSE LET r == MaxByPrice(Tail(ls))
         IN IF ls[1].price >= r.price THEN ls[1] ELSE r

RECURSIVE MinByPrice(_)
MinByPrice(ls) ==
    IF Len(ls) = 1 THEN ls[1]
    ELSE LET r == MinByPrice(Tail(ls))
         IN IF ls[1].price <= r.price THEN ls[1] ELSE r

\* abs(current_price - level.price) / current_price < 0.02
NearPrice(current_price, price) ==
    100 * Abs(current_price - price) < 2 * current_price

\* _check_volume: current_volume > mean(volume.tail(20)) * 1.1
CheckVolume(d) ==
    IF d.len < VolumeWindow THEN FALSE
    ELSE 10 * VolumeWindow * d.current_volume > 11 * d.tail_volume

\* lines 85-91: the candlestick evidence, <<buy, sell>>
CandleEvidence(pattern) ==
    IF pattern = None THEN <<0, 0>>
    ELSE IF pattern \in BullishLabels THEN <<CandleWeight, 0>>
    ELSE IF pattern \in BearishLabels THEN <<0, CandleWeight>>
    ELSE <<0, 0>>

\* lines 96-100: the support evidence (added to buy)
SupportEvidence(current_price, support_levels) ==
    IF Len(support_levels) = 0 THEN 0
    ELSE LET nearest_support == MaxByPrice(support_levels)
         IN IF NearPrice(current_price, nearest_support.price)
            THEN (LevelWeight * nearest_support.strength) \div 100
            ELSE 0

\* lines 102-106: the resistance evidence (added to sell)
ResistanceEvidence(current_price, resistance_levels) ==
    IF Len(resistance_levels) = 0 THEN 0
    ELSE LET nearest_resistance == MinByPrice(resistance_levels)
         IN IF NearPrice(current_price, nearest_resistance.price)
            THEN (LevelWeight * nearest_resistance.strength) \div 100
            ELSE 0

\* lines 108-114: the head-and-shoulders evidence, <<buy, sell>>
PatternEvidence(head_shoulders) ==
    IF head_shoulders = NoPattern THEN <<0, 0>>
    ELSE IF head_shoulders.pattern_direction = "BULLISH" THEN <<PatternWeight, 0>>
    ELSE IF head_shoulders.pattern_direction = "BEARISH" THEN <<0, PatternWeight>>
    ELSE <<0, 0>>

\* lines 79-114: the scores before the volume bonus, <<buy_score, sell_score>>
EvidenceScores(current_price, candlestick_pattern, levels, head_shoulders) ==
    LET c == CandleEvidence(candlestick_pattern)
        p == PatternEvidence(head_shoulders)
    IN <<c[1] + SupportEvidence(current_price, levels.support_levels) + p[1],
         c[2] + ResistanceEvidence(current_price, levels.resistance_levels) + p[2]>>

\* lines 116-121: the volume bonus, <<buy_score, sell_score>>
VolumeBonus(buy_score, sell_score, volume_confirmation) ==
    IF volume_confirmation
    THEN IF buy_score > sell_score
         THEN <<buy_score + VolumeWeight, sell_score>>
         ELSE <<buy_score, sell_score + VolumeWeight>>
    ELSE <<buy_score, sell_score>>

\* a decision that lets a tie through: ">=" for ">" and no 0.5 floor on buy
Decide_TieEmits(buy_score, sell_score) ==
    IF buy_score >= sell_score /\ buy_score > 0
    THEN [signal_type |-> "BUY", confidence |-> buy_score]
    ELSE IF sell_score > buy_score /\ sell_score > DecisionThreshold
    THEN [signal_type |-> "SELL", confidence |-> sell_score]
    ELSE NoSignal

\* a decision whose floor is ">= 0.5" instead of "> 0.5"
Decide_AtLeastThreshold(buy_score, sell_score) ==
    IF buy_score > sell_score /\ buy_score >= DecisionThreshold
    THEN [signal_type |-> "BUY", confidence |-> buy_score]
    ELSE IF sell_score > buy_score /\ sell_score >= DecisionThreshold
    THEN [signal_type |-> "SELL", confidence |-> sell_score]
    ELSE NoSignal

\* lines 123-144: the side that is decided, with its confidence
Decide(buy_score, sell_score) ==
    IF buy_score > sell_score /\ buy_score > DecisionThreshold
    THEN [signal_type |-> "BUY", confidence |-> buy_score]
    ELSE IF sell_score > buy_score /\ sell_score > DecisionThreshold
    THEN [signal_type |-> "SELL", confidence |-> sell_score]
    ELSE NoSignal

\* a stop that takes the highest support wherever it lies
BuyStopLoss_AnySupport(current_price, support_levels) ==
    IF Len(support_levels) > 0
    THEN MaxByPrice(support_levels).price * 995
    ELSE current_price * 970

\* _create_buy_signal, lines 160-167: 0.97 x price, or 0.995 x the highest
\* support below the price; in thousandths
BuyStopLoss(current_price, support_levels) ==
    LET below == SelectSeq(support_levels, LAMBDA s : s.price < current_price)
    IN IF Len(support_levels) > 0 /\ Len(below) > 0
       THEN MaxByPrice(below).price * 995
       ELSE current_price * 970

\* _create_sell_signal, lines 219-226: 1.03 x price, or 1.005 x the lowest
\* resistance above the price; in thousandths
SellStopLoss(current_price, resistance_levels) ==
    LET above == SelectSeq(resistance_levels, LAMBDA r : r.price > current_price)
    IN IF Len(resistance_levels) > 0 /\ Len(above) > 0
       THEN MinByPrice(above).price * 1005
       ELSE current_price * 1030

\* lines 169-176 and 228-235: the targets taken from the first two levels
\* of the list that lie on the far side of the price, with probability
\* 0.7 - i * 0.2 for the level at position i (counted from 0)
LevelTargets(levels, current_price, above) ==
    LET beyond(price) == IF above THEN price > current_price ELSE price < current_price
        picked == SelectSeq(<<1, 2>>, LAMBDA i : i <= Len(levels) /\ beyond(levels[i].price))
    IN [k \in 1..Len(picked) |->
          [level |-> 1000 * levels[picked[k]].price,
           probability |-> 70 - 20 * (picked[k] - 1)]]

\* lines 178-182 and 237-241: the target of the head-and-shoulders pattern
PatternTargets(head_shoulders) ==
    IF head_shoulders # NoPattern /\ head_shoulders.target_price # 0
    THEN <<[level |-> 1000 * head_shoulders.target_price, probability |-> 60]>>
    ELSE <<>>

\* lines 184-185 and 243-244: the 5% target that stands in for an empty list
DefaultTarget(current_price, permille) ==
    <<[level |-> current_price * permille, probability |-> 70]>>

\* lines 187 and 246
SignalStrength(confidence) ==
    IF confidence > 80 THEN "STRONG"
    ELSE IF confidence > 65 THEN "MEDIUM"
    ELSE "WEAK"

\* _create_buy_signal (the "indicators" entry of the record, which repeats
\* detector outputs, is not carried)
CreateBuySignal(current_price, confidence, levels, head_shoulders) ==
    LET take_profit ==
            LevelTargets(levels.resistance_levels, current_price, TRUE)
               \o PatternTargets(head_shoulders)
    IN [signal_type |-> "BUY",
        strength |-> SignalStrength(confidence),
        entry_price |-> 1000 * current_price,
        stop_loss |-> BuyStopLoss(current_price, levels.support_levels),
        take_profit |-> IF take_profit = <<>> THEN DefaultTarget(current_price, 1050)
                        ELSE take_profit,
        confidence |-> confidence]

\* _create_sell_signal
CreateSellSignal(current_price, confidence, levels, head_shoulders) ==
    LET take_profit ==
            LevelTargets(levels.support_levels, current_price, FALSE)
               \o PatternTargets(head_shoulders)
    IN [signal_type |-> "SELL",
        strength |-> SignalStrength(confidence),
        entry_price |-> 1000 * current_price,
        stop_loss |-> SellStopLoss(current_price, levels.resistance_levels),
        take_profit |-> IF take_profit = <<>> THEN DefaultTarget(current_price, 950)
                        ELSE take_profit,
        confidence |-> confidence]

\* lines 123-144: the record built for the side that Decide picked
CreateSignal(choice, current_price, levels, head_shoulders) ==
    IF choice.signal_type = "BUY"
    THEN CreateBuySignal(current_price, choice.confidence, levels, head_shoulders)
    ELSE IF choice.signal_type = "SELL"
    THEN CreateSellSignal(current_price, choice.confidence, levels, head_shoulders)
    ELSE NoSignal

\* a length gate that is off by one: 99 bars pass
InsufficientData_OffByOne(d) == d.len < MinBars - 1

\* line 40: len(df) < 100
InsufficientData(d) == d.len < MinBars

\* a filter that lets every decided signal through
ConfidenceFilter_NoMinimum(signal_data) == signal_data

\* lines 58-59: the min_confidence filter of generate_signal
ConfidenceFilter(signal_data) ==
    IF signal_data = NoSignal \/ signal_data.confidence < MinConfidence
    THEN NoSignal
    ELSE signal_data

----------------------------------------------------------------------------
(* Inputs of generate_signal *)

NoDetect ==
    [candlestick_pattern |-> None, levels |-> NoLevels, head_shoulders |-> NoPattern]
NoScores == [pre_buy |-> 0, pre_sell |-> 0, buy |-> 0, sell |-> 0, volume |-> FALSE]

\* series lengths around the 100-bar gate
TinyLens == {0, 1}
ShortLens == {MinBars - 1}
LongLens == {MinBars, MinBars + 1}
ClosePrices == {100}
LevelPrices == {99, 103}
TouchCounts == MinTouches..(StrengthCap + 1)
CurrentVolumes == {10, 12}
OtherVolumes == {10}

\* what generate_signal reads of the series itself: its length, the latest
\* close, the latest volume and the sum of the last 20 volumes (the latest
\* one and other_volume for each bar before it)
DfOf(len, close, current_volume, other_volume) ==
    [len |-> len, close |-> close, current_volume |-> current_volume,
     tail_volume |-> IF len = 0 THEN 0
                     ELSE current_volume + (Min2(len, VolumeWindow) - 1) * other_volume]

\* level lists as find_levels returns them: at most MaxLevels levels of
\* pairwise different prices, at least min_touches touches each, sorted by
\* strength descending
LevelLists ==
    LET Lv == {MkLevel(p, t) : p \in LevelPrices, t \in TouchCounts}
        Seqs == UNION {[1..k -> Lv] : k \in 0..MaxLevels}
    IN {s \in Seqs :
          /\ \A i, j \in 1..Len(s) : i # j => s[i].price # s[j].price
          /\ \A i \in 1..Len(s) : i < Len(s) => s[i].strength >= s[i + 1].strength}

HeadShouldersResults ==
    {NoPattern} \cup
    {[pattern_direction |-> "BEARISH", target_price |-> 90],
     [pattern_direction |-> "BULLISH", target_price |-> 110]}

\* what the three detectors return on the series (they are functions of it)
DetectorOutputs ==
    [candlestick_pattern : CandleLabels \cup {None},
     levels : [support_levels : LevelLists, resistance_levels : LevelLists],
     head_shoulders : HeadShouldersResults]

----------------------------------------------------------------------------
(* Actions of the aggregator *)

\* a series and what the detectors find in it; a series of fewer than 20
\* bars has no levels and no head-and-shoulders pattern
GenInit ==
    /\ gen_pc = "idle"
    /\ \/ /\ df \in {DfOf(len, close, cv, ov) :
                       len \in TinyLens, close \in ClosePrices,
                       cv \in CurrentVolumes, ov \in OtherVolumes}
          /\ on_df = NoDetect
       \/ /\ df \in {DfOf(len, close, cv, ov) :
                       len \in ShortLens \cup LongLens, close \in ClosePrices,
                       cv \in CurrentVolumes, ov \in OtherVolumes}
          /\ on_df \in DetectorOutputs
    /\ detected = NoDetect
    /\ scores = NoScores
    /\ decision = NoSignal
    /\ result = NoSignal

GenOff ==
    /\ gen_pc = "off"
    /\ df = DfOf(0, 0, 0, 0)
    /\ on_df = NoDetect
    /\ detected = NoDetect
    /\ scores = NoScores
    /\ decision = NoSignal
    /\ result = NoSignal

\* generate_signal on a series shorter than 100 bars: lines 40-42
GenerateSignalShort ==
    /\ gen_pc = "idle"
    /\ InsufficientData(df)
    /\ gen_pc' = "returned"
    /\ result' = NoSignal
    /\ UNCHANGED <<df, on_df, detected, scores, decision>>

\* generate_signal on a series of at least 100 bars: lines 44-68
GenerateSignal ==
    /\ gen_pc = "idle"
    /\ ~InsufficientData(df)
    /\ LET current_price == df.close
           pre == EvidenceScores(current_price, on_df.candlestick_pattern,
                                 on_df.levels, on_df.head_shoulders)
           vol == CheckVolume(df)
           post == VolumeBonus(pre[1], pre[2], vol)
           signal_data == CreateSignal(Decide(post[1], post[2]), current_price,
                                       on_df.levels, on_df.head_shoulders)
       IN /\ detected' = on_df
          /\ scores' = [pre_buy |-> pre[1], pre_sell |-> pre[2],
                        buy |-> post[1], sell |-> post[2], volume |-> vol]
          /\ decision' = signal_data
          /\ result' = ConfidenceFilter(signal_data)
    /\ gen_pc' = "returned"
    /\ UNCHANGED <<df, on_df>>

GenNext ==
    \/ GenerateSignalShort
    \/ GenerateSignal

----------------------------------------------------------------------------
(* CandlestickPatternAnalyzer *)

CandleWindow == 3         \* analyze: len(df) < 3

Body(candle) == Abs(candle.close - candle.open)
LowerShadow(candle) == Min2(candle.open, candle.close) - candle.low
UpperShadow(candle) == candle.high - Max2(candle.open, candle.close)

\* df.iloc[-k]
Iloc(s, k) == s[Len(s) + 1 - k]

\* _detect_hammer
DetectHammer(s) ==
    IF Len(s) < 1 THEN None
    ELSE LET candle == Iloc(s, 1)
             body == Body(candle)
         IN IF /\ LowerShadow(candle) > 2 * body
               /\ 10 * UpperShadow(candle) < body
               /\ body > 0
            THEN "Hammer" ELSE None

\* _detect_engulfing
DetectEngulfing(s) ==
    IF Len(s) < 2 THEN None
    ELSE LET prev == Iloc(s, 2)
             curr == Iloc(s, 1)
             prev_bullish == prev.close > prev.open
             curr_bullish == curr.close > curr.open
         IN IF /\ 10 * Body(curr) > 11 * Body(prev)
               /\ \/ /\ prev_bullish /\ ~curr_bullish
                     /\ curr.open > prev.close /\ curr.close < prev.open
                  \/ /\ ~prev_bullish /\ curr_bullish
                     /\ curr.open < prev.close /\ curr.close > prev.open
            THEN IF curr_bullish THEN "Bullish Engulfing" ELSE "Bearish Engulfing"
            ELSE None

\* _detect_doji
DetectDoji(s) ==
    IF Len(s) < 1 THEN None
    ELSE LET candle == Iloc(s, 1)
             total_range == candle.high - candle.low
         IN IF total_range > 0 /\ 10 * Body(candle) < total_range
            THEN "Doji" ELSE None

\* _detect_shooting_star
DetectShootingStar(s) ==
    IF Len(s) < 1 THEN None
    ELSE LET candle == Iloc(s, 1)
             body == Body(candle)
         IN IF /\ UpperShadow(candle) > 2 * body
               /\ 10 * LowerShadow(candle) < body
               /\ candle.close < candle.open
            THEN "Shooting Star" ELSE None

\* _detect_evening_star
DetectEveningStar(s) ==
    IF Len(s) < 3 THEN None
    ELSE LET first == Iloc(s, 3)
             second == Iloc(s, 2)
             third == Iloc(s, 1)
         IN IF /\ first.close > first.open
               /\ 10 * Body(second) < 3 * Body(first)
               /\ third.close < third.open
               /\ 2 * third.close < first.open + first.close
            THEN "Evening Star" ELSE None

\* _detect_morning_star
DetectMorningStar(s) ==
    IF Len(s) < 3 THEN None
    ELSE LET first == Iloc(s, 3)
             second == Iloc(s, 2)
             third == Iloc(s, 1)
         IN IF /\ first.close < first.open
               /\ 10 * Body(second) < 3 * Body(first)
               /\ third.close > third.open
               /\ 2 * third.close > first.open + first.close
            THEN "Morning Star" ELSE None

\* the list `patterns` of analyze, each test applied to the series
PatternTests(s) ==
    <<DetectHammer(s), DetectEngulfing(s), DetectDoji(s),
      DetectShootingStar(s), DetectEveningStar(s), DetectMorningStar(s)>>

\* lines 38-43: the first test result that is a label
RECURSIVE FirstLabel(_)
FirstLabel(found) ==
    IF Len(found) = 0 THEN None
    ELSE IF found[1] # None THEN found[1]
    ELSE FirstLabel(Tail(found))

\* analyze
Analyze(s) ==
    IF Len(s) < CandleWindow THEN None
    ELSE FirstLabel(PatternTests(s))

\* Bars for the analyzer.  Opens and closes lie on a four-point grid; a
\* shadow is absent, one unit, or MaxShadow units long.
BodyPrices == {14, 15, 16, 17}
Shadows == {0, 1, MaxShadow}

MkBar(open, close, upper, lower) ==
    [open |-> open, close |-> close,
     high |-> Max2(open, close) + upper, low |-> Min2(open, close) - lower]

LastBars == {MkBar(o, c, u, l) : o \in BodyPrices, c \in BodyPrices,
                                 u \in Shadows, l \in Shadows}

\* the tests read only open and close of the bars before the last one
EarlierBars == {MkBar(o, c, 0, 0) : o \in BodyPrices, c \in BodyPrices}

CandleSeries ==
    {<<>>}
    \cup {<<b>> : b \in LastBars}
    \cup {<<a, b>> : a \in EarlierBars, b \in LastBars}
    \cup {<<z, a, b>> : z \in EarlierBars, a \in EarlierBars, b \in LastBars}

CsInit ==
    /\ cs_pc = "idle"
    /\ cs_df \in CandleSeries
    /\ cs_result = None

CsOff ==
    /\ cs_pc = "off"
    /\ cs_df = <<>>
    /\ cs_result = None

\* analyze(df)
AnalyzeCall ==
    /\ cs_pc = "idle"
    /\ cs_result' = Analyze(cs_df)
    /\ cs_pc' = "returned"
    /\ UNCHANGED cs_df

CsNext == AnalyzeCall

----------------------------------------------------------------------------
(* RSICalculator *)

DefaultPeriod == 14       \* RSICalculator.__init__: period = 14

\* A float the RSI code computes: NaN, +infinity, or the ratio num / den of
\* two integers with den > 0.
NaN == [kind |-> "nan", num |-> 0, den |-> 1]
Inf == [kind |-> "inf", num |-> 1, den |-> 1]
Ratio(n, d) == [kind |-> "fin", num |-> n, den |-> d]
IsNaN(x) == x.kind = "nan"

\* a / b for floats a, b >= 0 where b may be 0: numpy yields inf or NaN
FloatDiv(a, b) ==
    IF b = 0 THEN (IF a = 0 THEN NaN ELSE Inf)
    ELSE Ratio(a, b)

\* x < y, x > y, x = y for ratios
RLt(x, y) == x.num * y.den < y.num * x.den
RGt(x, y) == x.num * y.den > y.num * x.den
REq(x, y) == x.num * y.den = y.num * x.den

\* close.diff(): NaN at the first bar, kept here as "no delta"
HasDelta(i) == i >= 2
Delta(closes, i) == closes[i] - closes[i - 1]

\* delta.where(delta > 0, 0) and -delta.where(delta < 0, 0)
GainAt(closes, i) ==
    IF HasDelta(i) /\ Delta(closes, i) > 0 THEN Delta(closes, i) ELSE 0
LossAt(closes, i) ==
    IF HasDelta(i) /\ Delta(closes, i) < 0 THEN -Delta(closes, i) ELSE 0

\* the sum of the rolling window of `period` values ending at bar i
RECURSIVE GainSum(_, _, _)
GainSum(closes, i, k) ==
    IF k = 0 THEN 0 ELSE GainAt(closes, i) + GainSum(closes, i - 1, k - 1)

RECURSIVE LossSum(_, _, _)
LossSum(closes, i, k) ==
    IF k = 0 THEN 0 ELSE LossAt(closes, i) + LossSum(closes, i - 1, k - 1)

\* the formula without its complement: 100 / (1 + rs)
RsiFromRs_NoComplement(rs) ==
    CASE rs.kind = "nan" -> NaN
      [] rs.kind = "inf" -> Ratio(0, 1)
      [] OTHER -> Ratio(100 * rs.den, rs.num + rs.den)

\* rsi = 100 - (100 / (1 + rs))
RsiFromRs(rs) ==
    CASE rs.kind = "nan" -> NaN
      [] rs.kind = "inf" -> Ratio(100, 1)
      [] OTHER -> Ratio(100 * rs.num, rs.num + rs.den)

\* rolling(window=period).mean() is NaN until the window is full; the two
\* means share the divisor `period`, so rs is the ratio of the sums
RsiAt(closes, period, i) ==
    IF i < period THEN NaN
    ELSE RsiFromRs(FloatDiv(GainSum(closes, i, period), LossSum(closes, i, period)))

\* calculate
Calculate(closes, period) ==
    IF Len(closes) < period + 1
    THEN [i \in 1..Len(closes) |-> NaN]
    ELSE [i \in 1..Len(closes) |-> RsiAt(closes, period, i)]

\* min(1.0, x) for a ratio x
MinOne(x) == IF RLt(x, Ratio(1, 1)) THEN x ELSE Ratio(1, 1)

Info(signal, strength, zone) ==
    [signal |-> signal, strength |-> strength, zone |-> zone]

\* get_signal with the near zones tested before the outer ones
GetSignal_NearFirst(v) ==
    IF IsNaN(v) THEN Info("NEUTRAL", Ratio(0, 1), "UNKNOWN")
    ELSE IF RLt(v, Ratio(40, 1))
    THEN Info("BUY", Ratio(40 * v.den - v.num, 40 * v.den), "NEAR_OVERSOLD")
    ELSE IF RGt(v, Ratio(60, 1))
    THEN Info("SELL", Ratio(v.num - 60 * v.den, 40 * v.den), "NEAR_OVERBOUGHT")
    ELSE IF RLt(v, Ratio(30, 1))
    THEN Info("BUY", MinOne(Ratio(30 * v.den - v.num, 20 * v.den)), "OVERSOLD")
    ELSE IF RGt(v, Ratio(70, 1))
    THEN Info("SELL", MinOne(Ratio(v.num - 70 * v.den, 20 * v.den)), "OVERBOUGHT")
    ELSE Info("NEUTRAL", Ratio(0, 1), "NEUTRAL")

\* get_signal
GetSignal(v) ==
    IF IsNaN(v) THEN Info("NEUTRAL", Ratio(0, 1), "UNKNOWN")
    ELSE IF RLt(v, Ratio(30, 1))
    THEN Info("BUY", MinOne(Ratio(30 * v.den - v.num, 20 * v.den)), "OVERSOLD")
    ELSE IF RGt(v, Ratio(70, 1))
    THEN Info("SELL", MinOne(Ratio(v.num - 70 * v.den, 20 * v.den)), "OVERBOUGHT")
    ELSE IF RLt(v, Ratio(40, 1))
    THEN Info("BUY", Ratio(40 * v.den - v.num, 40 * v.den), "NEAR_OVERSOLD")
    ELSE IF RGt(v, Ratio(60, 1))
    THEN Info("SELL", Ratio(v.num - 60 * v.den, 40 * v.den), "NEAR_OVERBOUGHT")
    ELSE Info("NEUTRAL", Ratio(0, 1), "NEUTRAL")

\* analyze, line 89: the last value of the series, NaN for an empty one
CurrentRsi(series) == IF Len(series) = 0 THEN NaN ELSE series[Len(series)]

NoInfo == Info(None, Ratio(0, 1), None)

\* Inputs: periods 1..MaxPeriod with closes on a small grid, and the default
\* period on a rising, a falling and a flat series of 15 bars
CloseGrid == 100..(100 + MaxPeriod)
SmallSeries == UNION {[1..n -> CloseGrid] : n \in 0..(MaxPeriod + 2)}
Rising == [i \in 1..(DefaultPeriod + 1) |-> 99 + i]
Falling == [i \in 1..(DefaultPeriod + 1) |-> 115 - i]
Flat == [i \in 1..(DefaultPeriod + 1) |-> 100]

RsiInit ==
    /\ rsi_pc = "idle"
    /\ \/ rsi_period \in 1..MaxPeriod /\ rsi_closes \in SmallSeries
       \/ rsi_period = DefaultPeriod /\ rsi_closes \in {Rising, Falling, Flat}
    /\ rsi_series = <<>>
    /\ rsi_value = NaN
    /\ rsi_info = NoInfo

\* get_signal alone, on a value of the grid or NaN
RsiValueInit ==
    /\ rsi_pc = "value"
    /\ rsi_period = DefaultPeriod
    /\ rsi_closes = <<>>
    /\ rsi_series = <<>>
    /\ rsi_value \in {Ratio(k, RsiGrid) : k \in 0..(100 * RsiGrid)} \cup {NaN}
    /\ rsi_info = NoInfo

RsiOff ==
    /\ rsi_pc = "off"
    /\ rsi_period = DefaultPeriod
    /\ rsi_closes = <<>>
    /\ rsi_series = <<>>
    /\ rsi_value = NaN
    /\ rsi_info = NoInfo

\* analyze(df)
RsiAnalyze ==
    /\ rsi_pc = "idle"
    /\ LET series == Calculate(rsi_closes, rsi_period)
           current_rsi == CurrentRsi(series)
       IN /\ rsi_series' = series
          /\ rsi_value' = current_rsi
          /\ rsi_info' = GetSignal(current_rsi)
    /\ rsi_pc' = "returned"
    /\ UNCHANGED <<rsi_period, rsi_closes>>

\* get_signal(rsi_value)
GetSignalCall ==
    /\ rsi_pc = "value"
    /\ rsi_info' = GetSignal(rsi_value)
    /\ rsi_pc' = "classified"
    /\ UNCHANGED <<rsi_period, rsi_closes, rsi_series, rsi_value>>

----------------------------------------------------------------------------
(* SupportResistanceAnalyzer: clustering *)

\* abs(high - price) / price <= self.price_tolerance, for price > 0
WithinTolerance(value, price) ==
    1000 * Abs(value - price) <= ToleranceMilli * price

\* lines 53-56: the position of the first key, in insertion order from
\* position j on, that the value is within tolerance of; 0 if there is none
RECURSIVE FirstWithin(_, _, _)
FirstWithin(price_groups, value, j) ==
    IF j > Len(price_groups) THEN 0
    ELSE IF WithinTolerance(value, price_groups[j].price) THEN j
    ELSE FirstWithin(price_groups, value, j + 1)

\* a bucket whose key follows the value that joins it
AddPivot_Recenter(price_groups, i, value) ==
    LET j == FirstWithin(price_groups, value, 1)
    IN IF j > 0
       THEN [price_groups EXCEPT ![j] =
                [price |-> value, indices |-> Append(@.indices, i)]]
       ELSE Append(price_groups, [price |-> value, indices |-> <<i>>])

\* a loop without its break: the bar joins every bucket within tolerance,
\* and the else branch of the for loop opens a bucket as well
AddPivot_NoBreak(price_groups, i, value) ==
    Append([j \in 1..Len(price_groups) |->
               IF WithinTolerance(value, price_groups[j].price)
               THEN [price_groups[j] EXCEPT !.indices = Append(@, i)]
               ELSE price_groups[j]],
           [price |-> value, indices |-> <<i>>])

\* lines 52-58: one pass of the loop body, for bar i with pivot `value`
AddPivot(price_groups, i, value) ==
    LET j == FirstWithin(price_groups, value, 1)
    IN IF j > 0
       THEN [price_groups EXCEPT ![j].indices = Append(@, i)]
       ELSE Append(price_groups, [price |-> value, indices |-> <<i>>])

\* lines 50-58: price_groups after the first n pivots (bars are numbered
\* from 1 here, from 0 in the code)
RECURSIVE GroupPivots(_, _)
GroupPivots(values, n) ==
    IF n = 0 THEN <<>>
    ELSE AddPivot(GroupPivots(values, n - 1), n, values[n])

\* buckets reported only above min_touches members
RECURSIVE ReportableLevels_AboveMin(_)
ReportableLevels_AboveMin(price_groups) ==
    IF Len(price_groups) = 0 THEN <<>>
    ELSE LET g == price_groups[1]
             rest == ReportableLevels_AboveMin(Tail(price_groups))
         IN IF Len(g.indices) > MinTouches
            THEN <<MkLevel(g.price, Len(g.indices))>> \o rest
            ELSE rest

\* lines 60-69: the buckets with at least min_touches members, as levels
RECURSIVE ReportableLevels(_)
ReportableLevels(price_groups) ==
    IF Len(price_groups) = 0 THEN <<>>
    ELSE LET g == price_groups[1]
             rest == ReportableLevels(Tail(price_groups))
         IN IF Len(g.indices) >= MinTouches
            THEN <<MkLevel(g.price, Len(g.indices))>> \o rest
            ELSE rest

\* insertion of a level ahead of the levels that are equally strong
RECURSIVE InsertByStrength_TiesReversed(_, _)
InsertByStrength_TiesReversed(sorted, level) ==
    IF Len(sorted) = 0 THEN <<level>>
    ELSE IF sorted[1].strength > level.strength
    THEN <<sorted[1]>> \o InsertByStrength_TiesReversed(Tail(sorted), level)
    ELSE <<level>> \o sorted

\* insertion of a level behind every level at least as strong
RECURSIVE InsertByStrength(_, _)
InsertByStrength(sorted, level) ==
    IF Len(sorted) = 0 THEN <<level>>
    ELSE IF sorted[1].strength >= level.strength
    THEN <<sorted[1]>> \o InsertByStrength(Tail(sorted), level)
    ELSE <<level>> \o sorted

\* line 71: levels.sort(key=strength, reverse=True), a stable sort
RECURSIVE SortByStrength(_, _)
SortByStrength(levels, n) ==
    IF n = 0 THEN <<>>
    ELSE InsertByStrength(SortByStrength(levels, n - 1), levels[n])

\* line 72: levels[:5]
Top(levels) == SubSeq(levels, 1, Min2(Len(levels), TopLevels))

\* _find_resistance_levels / _find_support_levels on the pivot values
LevelsOfGroups(price_groups) ==
    LET levels == ReportableLevels(price_groups)
    IN Top(SortByStrength(levels, Len(levels)))

Highs(bars) == [i \in 1..Len(bars) |-> bars[i].high]
Lows(bars) == [i \in 1..Len(bars) |-> bars[i].low]

NoGroups == [resistance |-> <<>>, support |-> <<>>]

\* price_groups of the two loops of find_levels; none below 20 bars
GroupsOf(bars) ==
    IF Len(bars) < LevelsMinBars THEN NoGroups
    ELSE [resistance |-> GroupPivots(Highs(bars), Len(bars)),
          support |-> GroupPivots(Lows(bars), Len(bars))]

\* find_levels
FindLevels(bars) ==
    IF Len(bars) < LevelsMinBars THEN NoLevels
    ELSE [support_levels |-> LevelsOfGroups(GroupsOf(bars).support),
          resistance_levels |-> LevelsOfGroups(GroupsOf(bars).resistance)]

\* Series for find_levels.  Pivots lie on a grid whose step is the tolerance
\* at 1000 exactly, so that a value joins a key 5 above or below it exactly
\* when the key is at least 1000.
PivotGrid == {995, 1000, 1005, 1010}
PivotBars ==
    {b \in [high : PivotGrid, low : PivotGrid] : b.low <= b.high}
FillBars == {[high |-> 1005, low |-> 1000], [high |-> 1010, low |-> 995]}
FreeSeries == UNION {[1..n -> PivotBars] : n \in 0..MaxFree}

Filled(free, fill) ==
    [i \in 1..LevelsMinBars |-> IF i <= Len(free) THEN free[i] ELSE fill]

\* Series whose highs fall in MaxBuckets buckets far apart from each other,
\* bucket b holding touches[b] consecutive bars; the lows run through the
\* same buckets in the opposite order.
WideCounts == {1, 2, 3, 5, 6}

RECURSIVE SumTo(_, _)
SumTo(touches, b) == IF b = 0 THEN 0 ELSE touches[b] + SumTo(touches, b - 1)

RECURSIVE BlockOf(_, _, _)
BlockOf(touches, i, b) ==
    IF i <= SumTo(touches, b) THEN b ELSE BlockOf(touches, i, b + 1)

WideHigh(b) == 1000 + 100 * ((3 * b) % MaxBuckets)

WideBars(touches) ==
    LET n == SumTo(touches, MaxBuckets)
    IN [i \in 1..n |->
           [high |-> WideHigh(BlockOf(touches, i, 1)),
            low |-> WideHigh(BlockOf(touches, n + 1 - i, 1)) - 800]]

WideSeries ==
    {WideBars(touches) :
        touches \in {t \in [1..MaxBuckets -> WideCounts] :
                        SumTo(t, MaxBuckets) = LevelsMinBars}}

LevelSeries ==
    FreeSeries
    \cup {Filled(free, fill) : free \in FreeSeries, fill \in FillBars}
    \cup WideSeries

LvInit ==
    /\ lv_pc = "idle"
    /\ lv_df \in LevelSeries
    /\ lv_groups = NoGroups
    /\ lv_levels = NoLevels

LvOff ==
    /\ lv_pc = "off"
    /\ lv_df = <<>>
    /\ lv_groups = NoGroups
    /\ lv_levels = NoLevels

\* find_levels(df)
FindLevelsCall ==
    /\ lv_pc = "idle"
    /\ lv_groups' = GroupsOf(lv_df)
    /\ lv_levels' = FindLevels(lv_df)
    /\ lv_pc' = "returned"
    /\ UNCHANGED lv_df

----------------------------------------------------------------------------
(* SupportResistanceAnalyzer: check_breakout *)

BreakoutVolumeNum == 6    \* current_volume > avg_volume * 1.2, as 6 / 5
BreakoutVolumeDen == 5

\* line 120: the result while no breakout is found (price is None in the
\* code, and the two-key result of line 113 has no such entries at all)
NoBreakout == [breakout |-> FALSE, level_type |-> None, price |-> 0, strength |-> 0]

\* df["volume"].tail(20): the volumes of the last 20 bars, or of all bars
VolumeTail(bars) ==
    SubSeq(bars, Max2(1, Len(bars) - VolumeWindow + 1), Len(bars))

RECURSIVE VolumeSum(_, _)
VolumeSum(bars, n) == IF n = 0 THEN 0 ELSE bars[n].volume + VolumeSum(bars, n - 1)

\* a volume test met already at 1.2 times the average
VolumeAboveAverage_AtLeast(bars) ==
    LET tail == VolumeTail(bars)
    IN BreakoutVolumeDen * Iloc(bars, 1).volume * Len(tail)
          >= BreakoutVolumeNum * VolumeSum(tail, Len(tail))

\* lines 117-118, 125: current_volume > avg_volume * 1.2
VolumeAboveAverage(bars) ==
    LET tail == VolumeTail(bars)
    IN BreakoutVolumeDen * Iloc(bars, 1).volume * Len(tail)
          > BreakoutVolumeNum * VolumeSum(tail, Len(tail))

\* lines 123-125
ResistanceBroken(bars, level, volume_confirmation) ==
    /\ Iloc(bars, 2).high < level.price
    /\ Iloc(bars, 1).high > level.price
    /\ (~volume_confirmation \/ VolumeAboveAverage(bars))

\* lines 136-138
SupportBroken(bars, level, volume_confirmation) ==
    /\ Iloc(bars, 2).low > level.price
    /\ Iloc(bars, 1).low < level.price
    /\ (~volume_confirmation \/ VolumeAboveAverage(bars))

BreakoutAt(level_type, level) ==
    [breakout |-> TRUE, level_type |-> level_type,
     price |-> level.price, strength |-> level.strength]

\* a scan that keeps the last broken level instead of stopping at the first
RECURSIVE ScanResistance_KeepLast(_, _, _, _)
ScanResistance_KeepLast(bars, levels, volume_confirmation, k) ==
    IF k > Len(levels) THEN NoBreakout
    ELSE LET later == ScanResistance_KeepLast(bars, levels, volume_confirmation, k + 1)
         IN IF later.breakout THEN later
            ELSE IF ResistanceBroken(bars, levels[k], volume_confirmation)
            THEN BreakoutAt("resistance", levels[k])
            ELSE NoBreakout

\* lines 122-132: the loop over the resistance levels from position k on
RECURSIVE ScanResistance(_, _, _, _)
ScanResistance(bars, levels, volume_confirmation, k) ==
    IF k > Len(levels) THEN NoBreakout
    ELSE IF ResistanceBroken(bars, levels[k], volume_confirmation)
    THEN BreakoutAt("resistance", levels[k])
    ELSE ScanResistance(bars, levels, volume_confirmation, k + 1)

\* lines 135-145: the loop over the support levels from position k on
RECURSIVE ScanSupport(_, _, _, _)
ScanSupport(bars, levels, volume_confirmation, k) ==
    IF k > Len(levels) THEN NoBreakout
    ELSE IF SupportBroken(bars, levels[k], volume_confirmation)
    THEN BreakoutAt("support", levels[k])
    ELSE ScanSupport(bars, levels, volume_confirmation, k + 1)

\* check_breakout
CheckBreakout(bars, levels, volume_confirmation) ==
    IF Len(bars) < 2 THEN NoBreakout
    ELSE LET res == ScanResistance(bars, levels.resistance_levels, volume_confirmation, 1)
         IN IF res.breakout THEN res
            ELSE ScanSupport(bars, levels.support_levels, volume_confirmation, 1)

\* Inputs of check_breakout.  Bars touch, cross or miss the levels 95 and
\* 100; the volume pairs <<current, every other bar>> make the current
\* volume 1.3 times, 1.2 times and 1.0 times the 20-bar average.
BreakoutPrices == {94, 95, 96, 101}
BreakoutLevels == {[price |-> 95, strength |-> 80], [price |-> 100, strength |-> 40]}
BreakoutVolumes == {<<247, 187>>, <<57, 47>>, <<47, 47>>}
EarlierCounts == {0, VolumeWindow - 1}

\* the orderings of the subsets of a set of levels
LevelOrders(levels) ==
    {<<>>} \cup {<<a>> : a \in levels}
           \cup {p \in levels \X levels : p[1] # p[2]}

BreakoutBars(volume) ==
    {b \in [high : BreakoutPrices, low : BreakoutPrices, volume : {volume}] :
        b.low <= b.high}

BreakoutSeries ==
    {<<>>}
    \cup {<<cur>> : cur \in BreakoutBars(47)}
    \cup UNION {
          {[i \in 1..(n + 2) |->
               IF i = n + 2 THEN cur ELSE IF i = n + 1 THEN prev ELSE early] :
                 cur \in BreakoutBars(v[1]),
                 prev \in BreakoutBars(v[2]),
                 early \in {[high |-> 101, low |-> 94, volume |-> v[2]],
                            [high |-> 95, low |-> 95, volume |-> v[2]]}} :
          n \in EarlierCounts, v \in BreakoutVolumes}

BkInit ==
    /\ bk_pc = "idle"
    /\ bk_df \in BreakoutSeries
    /\ bk_levels \in [support_levels : LevelOrders(BreakoutLevels),
                       resistance_levels : LevelOrders(BreakoutLevels)]
    /\ bk_confirm \in BOOLEAN
    /\ bk_result = NoBreakout

BkOff ==
    /\ bk_pc = "off"
    /\ bk_df = <<>>
    /\ bk_levels = NoLevels
    /\ bk_confirm = FALSE
    /\ bk_result = NoBreakout

\* check_breakout(df, levels, volume_confirmation)
CheckBreakoutCall ==
    /\ bk_pc = "idle"
    /\ bk_result' = CheckBreakout(bk_df, bk_levels, bk_confirm)
    /\ bk_pc' = "returned"
    /\ UNCHANGED <<bk_df, bk_levels, bk_confirm>>

----------------------------------------------------------------------------
(* Floats of the pattern detectors: NaN, +infinity, -infinity or a ratio *)

NegInf == [kind |-> "-inf", num |-> -1, den |-> 1]

FromInt(n) == Ratio(n, 1)

\* x - y, x + y and x / y for finite ratios; a division by zero yields what numpy
\* yields: NaN for 0 / 0, else an infinity with the sign of the dividend
RSub(x, y) == Ratio(x.num * y.den - y.num * x.den, x.den * y.den)

RAdd(x, y) == Ratio(x.num * y.den + y.num * x.den, x.den * y.den)

RDiv(x, y) ==
    LET n == x.num * y.den
        d == y.num * x.den
    IN IF d = 0 THEN (IF n = 0 THEN NaN ELSE IF n > 0 THEN Inf ELSE NegInf)
       ELSE IF d > 0 THEN Ratio(n, d)
       ELSE Ratio(-n, -d)

\* 1.0 - x
OneMinus(x) ==
    CASE x.kind = "fin" -> Ratio(x.den - x.num, x.den)
      [] x.kind = "inf" -> NegInf
      [] x.kind = "-inf" -> Inf
      [] x.kind = "nan" -> NaN

\* a clamp that lets every value through
Clamp01_Unclamped(x) == x

\* max(0.0, min(1.0, x)) as Python evaluates it: min and max keep their
\* first argument unless the second compares below (above) it, so NaN gives 1.0
Clamp01(x) ==
    CASE x.kind = "nan" -> FromInt(1)
      [] x.kind = "inf" -> FromInt(1)
      [] x.kind = "-inf" -> FromInt(0)
      [] x.kind = "fin" ->
            IF ~RLt(x, FromInt(1)) THEN FromInt(1)
            ELSE IF RGt(x, FromInt(0)) THEN x
            ELSE FromInt(0)

----------------------------------------------------------------------------
(* ChartPatternDetector: double top and double bottom *)

MinPatternLength == 20     \* min_pattern_length = 20
PatternToleranceDen == 100 \* price_tolerance = 0.01, as 1 / 100
VolumeShareNum == 4        \* pattern_volume > avg_volume * 0.8, as 4 / 5
VolumeShareDen == 5

\* what a detector returns when it finds nothing
NoChart ==
    [pattern_type |-> None, pattern_direction |-> None,
     first_price |-> 0, second_price |-> 0,
     neckline |-> FromInt(0), target_price |-> FromInt(0),
     completion_percentage |-> FromInt(0), volume_confirmation |-> FALSE]

\* scipy.signal.find_peaks(values, distance, prominence), for the series of
\* this model: one-bar spikes on a flat base that stand further apart than
\* `distance` and rise above the base by more than the prominence asked for.
\* On such series find_peaks returns the inner bars that exceed both
\* neighbours, in ascending order.
RECURSIVE PeaksFrom(_, _)
PeaksFrom(values, i) ==
    IF i >= Len(values) THEN <<>>
    ELSE IF values[i] > values[i - 1] /\ values[i] > values[i + 1]
    THEN <<i>> \o PeaksFrom(values, i + 1)
    ELSE PeaksFrom(values, i + 1)

FindPeaks(values) == IF Len(values) < 3 THEN <<>> ELSE PeaksFrom(values, 2)

Negated(values) == [i \in 1..Len(values) |-> -values[i]]

Volumes(bars) == [i \in 1..Len(bars) |-> bars[i].volume]

RECURSIVE SumFromTo(_, _, _)
SumFromTo(values, a, b) ==
    IF a > b THEN 0 ELSE values[a] + SumFromTo(values, a + 1, b)

\* _check_volume: mean volume of the bars start..end against 0.8 x the mean
\* volume of the series
CheckPatternVolume(bars, start_idx, end_idx) ==
    VolumeShareDen * SumFromTo(Volumes(bars), start_idx, end_idx) * Len(bars)
       > VolumeShareNum * SumFromTo(Volumes(bars), 1, Len(bars))
           * (end_idx - start_idx + 1)

\* df.iloc[a:b]["low"].idxmin(): the first bar of a .. b - 1 with the lowest low
RECURSIVE IdxMinLow(_, _, _)
IdxMinLow(bars, a, b) ==
    IF a + 1 >= b THEN a
    ELSE LET rest == IdxMinLow(bars, a + 1, b)
         IN IF bars[a].low <= bars[rest].low THEN a ELSE rest

\* df.iloc[a:b]["high"].idxmax()
RECURSIVE IdxMaxHigh(_, _, _)
IdxMaxHigh(bars, a, b) ==
    IF a + 1 >= b THEN a
    ELSE LET rest == IdxMaxHigh(bars, a + 1, b)
         IN IF bars[a].high >= bars[rest].high THEN a ELSE rest

\* abs(p1 - p2) / max(p1, p2) < self.price_tolerance
WithinPatternTolerance(p1, p2) ==
    PatternToleranceDen * Abs(p1 - p2) < Max2(p1, p2)

\* ChartPatternDetector._calculate_completion
CalculateCompletion(bars, peak_price, neckline, is_resistance) ==
    IF is_resistance
    THEN IF Iloc(bars, 1).high <= neckline THEN FromInt(1)
         ELSE Clamp01(OneMinus(RDiv(FromInt(peak_price - Iloc(bars, 1).high),
                                    FromInt(peak_price - neckline))))
    ELSE IF Iloc(bars, 1).low >= neckline THEN FromInt(1)
         ELSE Clamp01(OneMinus(RDiv(FromInt(Iloc(bars, 1).low - peak_price),
                                    FromInt(neckline - peak_price))))

\* a double top that measures its target from the second peak upwards
DoubleTopAt_TargetAbove(bars, peak1_idx, peak2_idx) ==
    LET neckline == bars[IdxMinLow(bars, peak1_idx, peak2_idx)].low
    IN [pattern_type |-> "DOUBLE_TOP", pattern_direction |-> "BEARISH",
        first_price |-> bars[peak1_idx].high, second_price |-> bars[peak2_idx].high,
        neckline |-> FromInt(neckline),
        target_price |-> FromInt(neckline + (bars[peak1_idx].high - neckline)),
        completion_percentage |->
            CalculateCompletion(bars, bars[peak1_idx].high, neckline, TRUE),
        volume_confirmation |-> CheckPatternVolume(bars, peak1_idx, peak2_idx)]

\* detect_double_top, lines 89-108: the record for the peaks peak1, peak2
DoubleTopAt(bars, peak1_idx, peak2_idx) ==
    LET neckline == bars[IdxMinLow(bars, peak1_idx, peak2_idx)].low
    IN [pattern_type |-> "DOUBLE_TOP", pattern_direction |-> "BEARISH",
        first_price |-> bars[peak1_idx].high, second_price |-> bars[peak2_idx].high,
        neckline |-> FromInt(neckline),
        target_price |-> FromInt(neckline - (bars[peak1_idx].high - neckline)),
        completion_percentage |->
            CalculateCompletion(bars, bars[peak1_idx].high, neckline, TRUE),
        volume_confirmation |-> CheckPatternVolume(bars, peak1_idx, peak2_idx)]

\* detect_double_top, lines 81-109: the loop over consecutive peaks from i on
RECURSIVE ScanDoubleTop(_, _, _)
ScanDoubleTop(bars, peaks, i) ==
    IF i > Len(peaks) - 1 THEN NoChart
    ELSE IF WithinPatternTolerance(bars[peaks[i]].high, bars[peaks[i + 1]].high)
    THEN DoubleTopAt(bars, peaks[i], peaks[i + 1])
    ELSE ScanDoubleTop(bars, peaks, i + 1)

\* a detector that looks for peaks in a series of any length
DetectDoubleTop_NoLengthGate(bars) ==
    LET peaks == FindPeaks(Highs(bars))
    IN IF Len(peaks) < 2 THEN NoChart ELSE ScanDoubleTop(bars, peaks, 1)

\* detect_double_top
DetectDoubleTop(bars) ==
    IF Len(bars) < MinPatternLength THEN NoChart
    ELSE LET peaks == FindPeaks(Highs(bars))
         IN IF Len(peaks) < 2 THEN NoChart ELSE ScanDoubleTop(bars, peaks, 1)

\* detect_double_bottom, lines 134-153
DoubleBottomAt(bars, bottom1_idx, bottom2_idx) ==
    LET neckline == bars[IdxMaxHigh(bars, bottom1_idx, bottom2_idx)].high
    IN [pattern_type |-> "DOUBLE_BOTTOM", pattern_direction |-> "BULLISH",
        first_price |-> bars[bottom1_idx].low, second_price |-> bars[bottom2_idx].low,
        neckline |-> FromInt(neckline),
        target_price |-> FromInt(neckline + (neckline - bars[bottom1_idx].low)),
        completion_percentage |->
            CalculateCompletion(bars, bars[bottom1_idx].low, neckline, FALSE),
        volume_confirmation |-> CheckPatternVolume(bars, bottom1_idx, bottom2_idx)]

\* detect_double_bottom, lines 126-154
RECURSIVE ScanDoubleBottom(_, _, _)
ScanDoubleBottom(bars, peaks, i) ==
    IF i > Len(peaks) - 1 THEN NoChart
    ELSE IF WithinPatternTolerance(bars[peaks[i]].low, bars[peaks[i + 1]].low)
    THEN DoubleBottomAt(bars, peaks[i], peaks[i + 1])
    ELSE ScanDoubleBottom(bars, peaks, i + 1)

\* detect_double_bottom
DetectDoubleBottom(bars) ==
    IF Len(bars) < MinPatternLength THEN NoChart
    ELSE LET peaks == FindPeaks(Negated(Lows(bars)))
         IN IF Len(peaks) < 2 THEN NoChart ELSE ScanDoubleBottom(bars, peaks, 1)

----------------------------------------------------------------------------
(* ChartPatternDetector: the detectors that fit trend lines *)

\* The slopes np.polyfit finds (in hundredths) and how they compare with the
\* standard deviations np.std finds are inputs of the model: `fit` holds,
\* for the window the called detector reads,
\*   high_trend, low_trend, pole_trend : the slopes,
\*   high_ratio, low_ratio : 0 if |trend| < 0.1 std, 2 if |trend| > 0.2 std,
\*                           1 if in between,
\*   pole_small : |pole_trend| < 0.1 std of the pole's closes.
Trends == {-100, -5, 0, 5, 100}
PoleTrends == {-100, 0, 100}

Fits ==
    {f \in [high_trend : Trends, low_trend : Trends, pole_trend : PoleTrends,
            high_ratio : 0..2, low_ratio : 0..2, pole_small : BOOLEAN] :
        /\ f.high_trend = 0 => f.high_ratio # 2
        /\ f.low_trend = 0 => f.low_ratio # 2}

FlatFit ==
    [high_trend |-> 0, low_trend |-> 0, pole_trend |-> 0,
     high_ratio |-> 1, low_ratio |-> 1, pole_small |-> FALSE]

TrendPattern(pattern_type, direction, completion, volume_confirmation) ==
    [pattern_type |-> pattern_type, pattern_direction |-> direction,
     first_price |-> 0, second_price |-> 0,
     neckline |-> FromInt(0), target_price |-> FromInt(0),
     completion_percentage |-> completion,
     volume_confirmation |-> volume_confirmation]

\* df.tail(n)
TailBars(bars, n) == SubSeq(bars, Max2(1, Len(bars) - n + 1), Len(bars))

\* _check_volume_trend
CheckVolumeTrend(bars) ==
    IF Len(bars) < 10 THEN FALSE
    ELSE 10 * SumFromTo(Volumes(bars), Len(bars) - 4, Len(bars))
            > 9 * SumFromTo(Volumes(bars), Len(bars) - 9, Len(bars) - 5)

\* detect_triangle
DetectTriangle(bars, fit) ==
    LET recent_df == TailBars(bars, MinPatternLength)
        found(pattern_type, direction) ==
            TrendPattern(pattern_type, direction, Ratio(1, 2), CheckVolumeTrend(recent_df))
    IN IF Len(bars) < MinPatternLength THEN NoChart
       ELSE IF fit.high_ratio = 0 /\ fit.low_ratio = 0 THEN NoChart
       ELSE IF fit.high_trend < 0 /\ fit.low_trend > 0
       THEN found("SYMMETRIC_TRIANGLE", "NEUTRAL")
       ELSE IF fit.high_trend < 0 /\ fit.low_trend < 0
       THEN found("DESCENDING_TRIANGLE", "BEARISH")
       ELSE IF fit.high_trend > 0 /\ fit.low_trend > 0
       THEN found("ASCENDING_TRIANGLE", "BULLISH")
       ELSE NoChart

\* detect_flag
DetectFlag(bars, fit) ==
    LET flag_df == TailBars(bars, MinPatternLength \div 2)
        found(direction) ==
            TrendPattern("FLAG", direction, Ratio(7, 10), CheckVolumeTrend(flag_df))
    IN IF Len(bars) < MinPatternLength THEN NoChart
       ELSE IF Len(bars) < (MinPatternLength \div 2) + (MinPatternLength \div 2) THEN NoChart
       ELSE IF fit.pole_small THEN NoChart
       ELSE IF fit.pole_trend > 0 /\ fit.high_trend < 0 /\ fit.low_trend < 0
       THEN found("BULLISH")
       ELSE IF fit.pole_trend < 0 /\ fit.high_trend > 0 /\ fit.low_trend > 0
       THEN found("BEARISH")
       ELSE NoChart

\* detect_pennant
DetectPennant(bars, fit) ==
    LET pennant_df == TailBars(bars, MinPatternLength \div 2)
        found(direction) ==
            TrendPattern("PENNANT", direction, Ratio(7, 10), CheckVolumeTrend(pennant_df))
    IN IF Len(bars) < MinPatternLength THEN NoChart
       ELSE IF Len(bars) < (MinPatternLength \div 2) + (MinPatternLength \div 2) THEN NoChart
       ELSE IF fit.pole_small THEN NoChart
       ELSE IF Abs(fit.high_trend) < 10 /\ Abs(fit.low_trend) < 10 THEN NoChart
       ELSE IF fit.pole_trend > 0 /\ fit.high_trend < 0 /\ fit.low_trend > 0
       THEN found("BULLISH")
       ELSE IF fit.pole_trend < 0 /\ fit.high_trend < 0 /\ fit.low_trend > 0
       THEN found("BEARISH")
       ELSE NoChart

\* abs(high_trend - low_trend) / max(abs(high_trend), abs(low_trend)) > 0.3
Diverging(high_trend, low_trend) ==
    10 * Abs(high_trend - low_trend) > 3 * Max2(Abs(high_trend), Abs(low_trend))

\* detect_wedge
DetectWedge(bars, fit) ==
    LET recent_df == TailBars(bars, MinPatternLength)
        found(pattern_type, direction) ==
            TrendPattern(pattern_type, direction, Ratio(3, 5), CheckVolumeTrend(recent_df))
    IN IF Len(bars) < MinPatternLength THEN NoChart
       ELSE IF /\ fit.high_trend > 0 /\ fit.low_trend > 0
               /\ Diverging(fit.high_trend, fit.low_trend)
       THEN found("RISING_WEDGE", "BEARISH")
       ELSE IF /\ fit.high_trend < 0 /\ fit.low_trend < 0
               /\ Diverging(fit.high_trend, fit.low_trend)
       THEN found("FALLING_WEDGE", "BULLISH")
       ELSE NoChart

RECURSIVE MaxOf(_, _)
MaxOf(values, n) == IF n = 1 THEN values[1] ELSE Max2(values[n], MaxOf(values, n - 1))

RECURSIVE MinOf(_, _)
MinOf(values, n) == IF n = 1 THEN values[1] ELSE Min2(values[n], MinOf(values, n - 1))

\* detect_rectangle; a series without any range makes the two range ratios
\* 0 / 0, which compare as not above 0.3
DetectRectangle(bars, fit) ==
    LET recent_df == TailBars(bars, MinPatternLength)
        n == Len(recent_df)
        high_range == MaxOf(Highs(recent_df), n) - MinOf(Highs(recent_df), n)
        low_range == MaxOf(Lows(recent_df), n) - MinOf(Lows(recent_df), n)
        price_range == MaxOf(Highs(recent_df), n) - MinOf(Lows(recent_df), n)
    IN IF Len(bars) < MinPatternLength THEN NoChart
       ELSE IF 10 * high_range > 3 * price_range \/ 10 * low_range > 3 * price_range
       THEN NoChart
       ELSE IF fit.high_ratio = 2 \/ fit.low_ratio = 2 THEN NoChart
       ELSE TrendPattern("RECTANGLE", "NEUTRAL", Ratio(1, 2), CheckVolumeTrend(recent_df))

----------------------------------------------------------------------------
(* HeadShouldersPattern *)

SymmetryToleranceDen == 10 \* symmetry_tolerance = 0.1, as 1 / 10

\* abs(left - right) / max(left, right) < self.symmetry_tolerance
Symmetric(left_shoulder, right_shoulder) ==
    SymmetryToleranceDen * Abs(left_shoulder - right_shoulder)
       < Max2(left_shoulder, right_shoulder)

\* a neckline through the lowest lows (highest highs, for the inverse
\* pattern) on the two sides of the head
HsCalculateNeckline_Flanks(bars, left_idx, head_idx, right_idx, is_support) ==
    IF is_support
    THEN Ratio(bars[IdxMaxHigh(bars, left_idx, head_idx)].high
                 + bars[IdxMaxHigh(bars, head_idx, right_idx)].high, 2)
    ELSE Ratio(bars[IdxMinLow(bars, left_idx, head_idx)].low
                 + bars[IdxMinLow(bars, head_idx, right_idx)].low, 2)

\* _calculate_neckline
HsCalculateNeckline(bars, left_idx, head_idx, right_idx, is_support) ==
    IF is_support
    THEN Ratio(bars[left_idx].low + bars[right_idx].low, 2)
    ELSE Ratio(bars[left_idx].high + bars[right_idx].high, 2)

\* HeadShouldersPattern._calculate_completion
HsCalculateCompletion(bars, neckline, head, is_support) ==
    IF is_support
    THEN IF ~RGt(FromInt(Iloc(bars, 1).low), neckline) THEN FromInt(1)
         ELSE Clamp01(RDiv(RSub(neckline, FromInt(Iloc(bars, 1).low)),
                           RSub(neckline, FromInt(head))))
    ELSE IF ~RLt(FromInt(Iloc(bars, 1).high), neckline) THEN FromInt(1)
         ELSE Clamp01(RDiv(RSub(FromInt(Iloc(bars, 1).high), neckline),
                           RSub(FromInt(head), neckline)))

\* _detect_bearish_pattern, lines 74-98
BearishAt(bars, left_idx, head_idx, right_idx) ==
    LET neckline == HsCalculateNeckline(bars, left_idx, head_idx, right_idx, FALSE)
        head == bars[head_idx].high
    IN [pattern_type |-> "HEAD_AND_SHOULDERS", pattern_direction |-> "BEARISH",
        first_price |-> head, second_price |-> 0,
        neckline |-> neckline,
        target_price |-> RSub(neckline, RSub(FromInt(head), neckline)),
        completion_percentage |-> HsCalculateCompletion(bars, neckline, head, FALSE),
        volume_confirmation |-> CheckPatternVolume(bars, left_idx, right_idx)]

\* _detect_bearish_pattern, lines 62-100: the loop over peak triples
RECURSIVE ScanBearish(_, _, _)
ScanBearish(bars, peaks, i) ==
    IF i > Len(peaks) - 2 THEN NoChart
    ELSE LET left_shoulder == bars[peaks[i]].high
             head == bars[peaks[i + 1]].high
             right_shoulder == bars[peaks[i + 2]].high
         IN IF /\ head > left_shoulder
               /\ head > right_shoulder
               /\ Symmetric(left_shoulder, right_shoulder)
            THEN BearishAt(bars, peaks[i], peaks[i + 1], peaks[i + 2])
            ELSE ScanBearish(bars, peaks, i + 1)

\* _detect_bearish_pattern
DetectBearishPattern(bars) ==
    LET peaks == FindPeaks(Highs(bars))
    IN IF Len(peaks) < 3 THEN NoChart ELSE ScanBearish(bars, peaks, 1)

\* _detect_bullish_pattern, lines 125-149
BullishAt(bars, left_idx, head_idx, right_idx) ==
    LET neckline == HsCalculateNeckline(bars, left_idx, head_idx, right_idx, TRUE)
        head == bars[head_idx].low
    IN [pattern_type |-> "INVERSE_HEAD_AND_SHOULDERS", pattern_direction |-> "BULLISH",
        first_price |-> head, second_price |-> 0,
        neckline |-> neckline,
        target_price |-> RAdd(neckline, RSub(neckline, FromInt(head))),
        completion_percentage |-> HsCalculateCompletion(bars, neckline, head, TRUE),
        volume_confirmation |-> CheckPatternVolume(bars, left_idx, right_idx)]

\* _detect_bullish_pattern, lines 112-151
RECURSIVE ScanBullish(_, _, _)
ScanBullish(bars, peaks, i) ==
    IF i > Len(peaks) - 2 THEN NoChart
    ELSE LET left_shoulder == bars[peaks[i]].low
             head == bars[peaks[i + 1]].low
             right_shoulder == bars[peaks[i + 2]].low
         IN IF /\ head < left_shoulder
               /\ head < right_shoulder
               /\ Symmetric(left_shoulder, right_shoulder)
            THEN BullishAt(bars, peaks[i], peaks[i + 1], peaks[i + 2])
            ELSE ScanBullish(bars, peaks, i + 1)

\* _detect_bullish_pattern
DetectBullishPattern(bars) ==
    LET peaks == FindPeaks(Negated(Lows(bars)))
    IN IF Len(peaks) < 3 THEN NoChart ELSE ScanBullish(bars, peaks, 1)

\* HeadShouldersPattern.detect
HsDetect(bars) ==
    IF Len(bars) < MinPatternLength THEN NoChart
    ELSE LET bearish == DetectBearishPattern(bars)
         IN IF bearish # NoChart THEN bearish ELSE DetectBullishPattern(bars)

----------------------------------------------------------------------------
(* Inputs and actions of the pattern detectors *)

\* Series of 28 bars, flat at 50 with volume 10, that carry up to three
\* spikes in the highs (bars 6, 13, 20), up to three dips in the lows (bars
\* 10, 17, 24) and a last bar that is flat at a price of its own.  0 stands
\* for "no spike" or "no dip".
BasePrice == 50
BaseVolume == 10
SpikeAt == <<6, 13, 20>>
DipAt == <<10, 17, 24>>
SpikeLen == 28
SpikeHeights == <<{0, 99, 100, 101}, {0, 99, 100, 101, 102}, {0, 80, 100, 102}>>
DipDepths == <<{0, 30}, {0, 30, 25}, {0, 30}>>
LastPrices == {25, 30, 40, 50, 60, 75, 100, 110}

SpikeBars(n, base, spike_at, spikes, dip_at, dips, last) ==
    [i \in 1..n |->
        IF i = n THEN [high |-> last, low |-> last, volume |-> BaseVolume]
        ELSE [high |-> IF \E k \in 1..Len(spike_at) : spike_at[k] = i /\ spikes[k] # 0
                       THEN spikes[CHOOSE k \in 1..Len(spike_at) : spike_at[k] = i]
                       ELSE base,
              low |-> IF \E k \in 1..Len(dip_at) : dip_at[k] = i /\ dips[k] # 0
                      THEN dips[CHOOSE k \in 1..Len(dip_at) : dip_at[k] = i]
                      ELSE base,
              volume |-> BaseVolume]]

SpikeSeries ==
    {SpikeBars(SpikeLen, BasePrice, SpikeAt, <<h1, h2, h3>>, DipAt, <<d1, d2, d3>>, last) :
        h1 \in SpikeHeights[1], h2 \in SpikeHeights[2], h3 \in SpikeHeights[3],
        d1 \in DipDepths[1], d2 \in DipDepths[2], d3 \in DipDepths[3],
        last \in LastPrices}

\* 150 bars flat at 100 with peaks of 110 at bars 20 and 41 and a trough of
\* 95 at bar 30 (counted from 0)
ExampleSeries ==
    SpikeBars(150, 100, <<21, 42>>, <<110, 110>>, <<31>>, <<95>>, 100)

\* two equal spikes and a dip between them on 19 and on 20 bars
ShortSeries ==
    {SpikeBars(n, BasePrice, SpikeAt, <<100, 100, 0>>, DipAt, <<30, 0, 0>>, BasePrice) :
        n \in {MinPatternLength - 1, MinPatternLength}}

\* 20 bars between 50 and 60, for the detectors that fit trend lines
FitSeries ==
    {[i \in 1..MinPatternLength |-> [high |-> 60, low |-> BasePrice, volume |-> BaseVolume]]}

Detectors ==
    {"detect_double_top", "detect_double_bottom", "detect_triangle", "detect_flag",
     "detect_pennant", "detect_wedge", "detect_rectangle", "detect"}

PtInit ==
    /\ pt_pc = "idle"
    /\ \/ pt_df \in SpikeSeries \cup {ExampleSeries} \cup ShortSeries /\ pt_fit = FlatFit
       \/ pt_df \in FitSeries /\ pt_fit \in Fits
    /\ pt_call = None
    /\ pt_result = NoChart

PtOff ==
    /\ pt_pc = "off"
    /\ pt_df = <<>>
    /\ pt_fit = FlatFit
    /\ pt_call = None
    /\ pt_result = NoChart

Returns(detector, value) ==
    /\ pt_pc = "idle"
    /\ pt_call' = detector
    /\ pt_result' = value
    /\ pt_pc' = "returned"
    /\ UNCHANGED <<pt_df, pt_fit>>

CallDetectDoubleTop == Returns("detect_double_top", DetectDoubleTop(pt_df))

CallDetectDoubleBottom == Returns("detect_double_bottom", DetectDoubleBottom(pt_df))

CallDetectTriangle == Returns("detect_triangle", DetectTriangle(pt_df, pt_fit))

CallDetectFlag == Returns("detect_flag", DetectFlag(pt_df, pt_fit))

CallDetectPennant == Returns("detect_pennant", DetectPennant(pt_df, pt_fit))

CallDetectWedge == Returns("detect_wedge", DetectWedge(pt_df, pt_fit))

CallDetectRectangle == Returns("detect_rectangle", DetectRectangle(pt_df, pt_fit))

CallHsDetect == Returns("detect", HsDetect(pt_df))

PtNext ==
    \/ CallDetectDoubleTop
    \/ CallDetectDoubleBottom
    \/ CallDetectTriangle
    \/ CallDetectFlag
    \/ CallDetectPennant
    \/ CallDetectWedge
    \/ CallDetectRectangle
    \/ CallHsDetect

----------------------------------------------------------------------------
(* One series under repeated detector calls *)

MaxCalls == 3      \* calls made on one series
SessionLen == 22   \* longest series

\* ChartPatternDetector.detect_all: the patterns found, in the order of the
\* detector calls
DetectAll(bars, fit) ==
    LET found == <<DetectDoubleTop(bars), DetectDoubleBottom(bars),
                   DetectTriangle(bars, fit), DetectFlag(bars, fit),
                   DetectPennant(bars, fit), DetectWedge(bars, fit),
                   DetectRectangle(bars, fit)>>
    IN SelectSeq(found, LAMBDA pattern : pattern # NoChart)

Closes(bars) == [i \in 1..Len(bars) |-> bars[i].close]

\* RSICalculator.analyze with the default period: the "rsi" entry (NaN
\* stands for None) and the entries taken from get_signal
RsiAnalysis(bars) ==
    LET current_rsi == CurrentRsi(Calculate(Closes(bars), DefaultPeriod))
    IN [rsi |-> current_rsi, info |-> GetSignal(current_rsi)]

SessionDetectors ==
    {"analyze", "rsi_analyze", "find_levels", "check_breakout", "detect", "detect_all"}

\* what a call of the detector returns
Output(detector, bars, fit, levels) ==
    CASE detector = "analyze" -> Analyze(bars)
      [] detector = "rsi_analyze" -> RsiAnalysis(bars)
      [] detector = "find_levels" -> FindLevels(bars)
      [] detector = "check_breakout" -> CheckBreakout(bars, levels, TRUE)
      [] detector = "detect" -> HsDetect(bars)
      [] detector = "detect_all" -> DetectAll(bars, fit)

\* the value with which each detector reports that it found nothing
Absent(detector) ==
    CASE detector = "analyze" -> None
      [] detector = "rsi_analyze" ->
            [rsi |-> NaN, info |-> Info("NEUTRAL", Ratio(0, 1), "UNKNOWN")]
      [] detector = "find_levels" -> NoLevels
      [] detector = "check_breakout" -> NoBreakout
      [] detector = "detect" -> NoChart
      [] detector = "detect_all" -> <<>>

\* Series of 0 to SessionLen bars: flat at 50, or with two equal peaks and a
\* dip between them, or with a head between two shoulders; the last bar is
\* flat at 50, or stands at 60 on twice the volume.
SessionShapes ==
    {<<<<0, 0, 0>>, <<0, 0, 0>>>>,
     <<<<100, 100, 0>>, <<30, 0, 0>>>>,
     <<<<99, 101, 100>>, <<0, 0, 0>>>>}

SessionBars(n, shape, last) ==
    LET bars == SpikeBars(n, BasePrice, SpikeAt, shape[1], DipAt, shape[2], last)
    IN [i \in 1..n |->
          [open |-> bars[i].low, close |-> bars[i].high,
           high |-> bars[i].high, low |-> bars[i].low,
           volume |-> IF i = n /\ last # BasePrice THEN 2 * BaseVolume ELSE BaseVolume]]

SessionSeries ==
    {SessionBars(n, shape, last) :
        n \in 0..SessionLen, shape \in SessionShapes, last \in {BasePrice, 60}}

TriangleFit ==
    [high_trend |-> -100, low_trend |-> 100, pole_trend |-> 0,
     high_ratio |-> 2, low_ratio |-> 2, pole_small |-> FALSE]

SessionLevels ==
    [support_levels |-> <<>>,
     resistance_levels |-> <<[price |-> 55, strength |-> 80, touches |-> 4]>>]

SsInit ==
    /\ ss_pc = "open"
    /\ ss_df \in SessionSeries
    /\ ss_fit \in {FlatFit, TriangleFit}
    /\ ss_levels \in {NoLevels, SessionLevels}
    /\ ss_calls = [d \in SessionDetectors |-> 0]
    /\ ss_first = [d \in SessionDetectors |-> Absent(d)]
    /\ ss_last = [d \in SessionDetectors |-> Absent(d)]

SsOff ==
    /\ ss_pc = "off"
    /\ ss_df = <<>>
    /\ ss_fit = FlatFit
    /\ ss_levels = NoLevels
    /\ ss_calls = [d \in SessionDetectors |-> 0]
    /\ ss_first = [d \in SessionDetectors |-> Absent(d)]
    /\ ss_last = [d \in SessionDetectors |-> Absent(d)]

RECURSIVE CallsMade(_, _)
CallsMade(calls, detectors) ==
    IF detectors = {} THEN 0
    ELSE LET d == CHOOSE d \in detectors : TRUE
         IN calls[d] + CallsMade(calls, detectors \ {d})

\* a call that leaves the series in the opposite order
SessionCall_ReversesSeries(detector) ==
    /\ ss_pc = "open"
    /\ CallsMade(ss_calls, SessionDetectors) < MaxCalls
    /\ LET out == Output(detector, ss_df, ss_fit, ss_levels)
       IN /\ ss_last' = [ss_last EXCEPT ![detector] = out]
          /\ ss_first' = IF ss_calls[detector] = 0
                         THEN [ss_first EXCEPT ![detector] = out]
                         ELSE ss_first
    /\ ss_calls' = [ss_calls EXCEPT ![detector] = @ + 1]
    /\ ss_df' = [i \in 1..Len(ss_df) |-> ss_df[Len(ss_df) + 1 - i]]
    /\ UNCHANGED <<ss_pc, ss_fit, ss_levels>>

\* one call of a detector on the series: the detector reads the series and
\* its own configuration, and writes neither
SessionCall(detector) ==
    /\ ss_pc = "open"
    /\ CallsMade(ss_calls, SessionDetectors) < MaxCalls
    /\ LET out == Output(detector, ss_df, ss_fit, ss_levels)
       IN /\ ss_last' = [ss_last EXCEPT ![detector] = out]
          /\ ss_first' = IF ss_calls[detector] = 0
                         THEN [ss_first EXCEPT ![detector] = out]
                         ELSE ss_first
    /\ ss_calls' = [ss_calls EXCEPT ![detector] = @ + 1]
    /\ UNCHANGED <<ss_pc, ss_df, ss_fit, ss_levels>>

CallAnalyze == SessionCall("analyze")

CallRsiAnalyze == SessionCall("rsi_analyze")

CallFindLevels == SessionCall("find_levels")

CallCheckBreakout == SessionCall("check_breakout")

CallDetect == SessionCall("detect")

CallDetectAll == SessionCall("detect_all")

SsNext ==
    \/ CallAnalyze
    \/ CallRsiAnalyze
    \/ CallFindLevels
    \/ CallCheckBreakout
    \/ CallDetect
    \/ CallDetectAll

\* generate_signal on series of every length below 100
HistoryInit ==
    /\ gen_pc = "idle"
    /\ df \in {DfOf(len, close, cv, ov) :
                 len \in 0..(MinBars - 1), close \in ClosePrices,
                 cv \in CurrentVolumes, ov \in OtherVolumes}
    /\ on_df = NoDetect
    /\ detected = NoDetect
    /\ scores = NoScores
    /\ decision = NoSignal
    /\ result = NoSignal

----------------------------------------------------------------------------
(* BaseParser.validate_ohlcv *)

MaxRows == 3       \* rows of a frame

RequiredColumns == {"open", "high", "low", "close", "volume", "timestamp"}

\* df.dropna()
DropNa(rows) == SelectSeq(rows, LAMBDA row : ~row.missing)

\* df[df["volume"] > 0]
PositiveVolume(rows) == SelectSeq(rows, LAMBDA row : row.volume > 0)

\* df.sort_values("timestamp"): the rows in ascending order of timestamp.
\* The default sort is not stable, so rows of equal timestamp may come out
\* in any order.
SortValues(rows) ==
    {[i \in 1..Len(rows) |-> rows[order[i]]] :
        order \in {f \in Permutations(1..Len(rows)) :
                      \A i \in 1..(Len(rows) - 1) :
                          rows[f[i]].timestamp <= rows[f[i + 1]].timestamp}}

\* Frames of up to MaxRows rows in any order: timestamps 1..3, volume 0, 10
\* or 20, and rows of volume 10 with a missing value.
FrameRows ==
    {[timestamp |-> t, volume |-> v, missing |-> FALSE] : t \in 1..3, v \in {0, 10, 20}}
    \cup {[timestamp |-> t, volume |-> 10, missing |-> TRUE] : t \in 1..3}

Frames == UNION {[1..n -> FrameRows] : n \in 0..MaxRows}

VdInit ==
    /\ vd_pc = "idle"
    /\ vd_columns \in {RequiredColumns, RequiredColumns \ {"volume"}}
    /\ vd_df \in Frames
    /\ vd_result = <<>>

VdOff ==
    /\ vd_pc = "off"
    /\ vd_columns = RequiredColumns
    /\ vd_df = <<>>
    /\ vd_result = <<>>

\* validate_ohlcv on a frame that lacks a required column: ValueError
ValidateRaises ==
    /\ vd_pc = "idle"
    /\ ~(RequiredColumns \subseteq vd_columns)
    /\ vd_pc' = "raised"
    /\ UNCHANGED <<vd_columns, vd_df, vd_result>>

\* validate_ohlcv on a frame with all columns
ValidateReturns ==
    /\ vd_pc = "idle"
    /\ RequiredColumns \subseteq vd_columns
    /\ vd_result' \in SortValues(PositiveVolume(DropNa(vd_df)))
    /\ vd_pc' = "returned"
    /\ UNCHANGED <<vd_columns, vd_df>>

VdNext ==
    \/ ValidateRaises
    \/ ValidateReturns

----------------------------------------------------------------------------
(* retry_with_backoff *)

MaxAttempts == 3       \* largest max_attempts

\* an invocation returns a value, raises an exception of a listed class or
\* raises an exception of another class
Outcomes == {"value", "listed", "other"}

NoException == [kind |-> "None", attempt |-> 0]

\* the exception raised by the k-th invocation
ExceptionOf(kind, k) == [kind |-> kind, attempt |-> k]

\* raise last_exception with last_exception None (max_attempts = 0)
RaiseNone == [kind |-> "TypeError", attempt |-> 0]

NoOutcome == [kind |-> "None", attempt |-> 0]

CallEvent(k) == [event |-> "call", attempt |-> k, delay |-> 0]

SleepEvent(k, delay) == [event |-> "sleep", attempt |-> k, delay |-> delay]

RtInit ==
    /\ rt_pc = "loop"
    /\ rt_max \in 0..MaxAttempts
    /\ rt_initial_delay \in {1, 2}
    /\ rt_factor \in {2, 3}
    /\ rt_func \in [1..MaxAttempts -> Outcomes]
    /\ rt_attempt = 0
    /\ rt_delay = rt_initial_delay
    /\ rt_last_exception = NoException
    /\ rt_log = <<>>
    /\ rt_result = NoOutcome

RtOff ==
    /\ rt_pc = "off"
    /\ rt_max = 0
    /\ rt_initial_delay = 0
    /\ rt_factor = 0
    /\ rt_func = <<>>
    /\ rt_attempt = 0
    /\ rt_delay = 0
    /\ rt_last_exception = NoException
    /\ rt_log = <<>>
    /\ rt_result = NoOutcome

\* a wrapper that sleeps after every failed attempt, the last one included
SleepsAfter_EveryFailure(attempt, max_attempts) == TRUE

\* line 26: attempt < max_attempts - 1
SleepsAfter(attempt, max_attempts) == attempt < max_attempts - 1

\* lines 22-23: the invocation returns and the wrapper returns its value
AttemptReturns ==
    /\ rt_pc = "loop"
    /\ rt_attempt < rt_max
    /\ rt_func[rt_attempt + 1] = "value"
    /\ rt_log' = Append(rt_log, CallEvent(rt_attempt + 1))
    /\ rt_result' = [kind |-> "value", attempt |-> rt_attempt + 1]
    /\ rt_pc' = "returned"
    /\ UNCHANGED <<rt_max, rt_initial_delay, rt_factor, rt_func, rt_attempt, rt_delay,
                   rt_last_exception>>

\* lines 24-36: the invocation raises a listed exception
AttemptFails ==
    /\ rt_pc = "loop"
    /\ rt_attempt < rt_max
    /\ rt_func[rt_attempt + 1] = "listed"
    /\ rt_last_exception' = ExceptionOf("listed", rt_attempt + 1)
    /\ IF SleepsAfter(rt_attempt, rt_max)
       THEN /\ rt_log' = rt_log \o <<CallEvent(rt_attempt + 1),
                                     SleepEvent(rt_attempt + 1, rt_delay)>>
            /\ rt_delay' = rt_delay * rt_factor
       ELSE /\ rt_log' = Append(rt_log, CallEvent(rt_attempt + 1))
            /\ rt_delay' = rt_delay
    /\ rt_attempt' = rt_attempt + 1
    /\ UNCHANGED <<rt_pc, rt_max, rt_initial_delay, rt_factor, rt_func, rt_result>>

\* lines 22-24: the invocation raises an exception that is not listed; no
\* except clause matches and it leaves the wrapper
AttemptEscapes ==
    /\ rt_pc = "loop"
    /\ rt_attempt < rt_max
    /\ rt_func[rt_attempt + 1] = "other"
    /\ rt_log' = Append(rt_log, CallEvent(rt_attempt + 1))
    /\ rt_result' = ExceptionOf("other", rt_attempt + 1)
    /\ rt_pc' = "raised"
    /\ UNCHANGED <<rt_max, rt_initial_delay, rt_factor, rt_func, rt_attempt, rt_delay,
                   rt_last_exception>>

\* line 38: the loop is over, raise last_exception
RaiseLast ==
    /\ rt_pc = "loop"
    /\ rt_attempt >= rt_max
    /\ rt_result' = IF rt_last_exception = NoException THEN RaiseNone
                    ELSE rt_last_exception
    /\ rt_pc' = "raised"
    /\ UNCHANGED <<rt_max, rt_initial_delay, rt_factor, rt_func, rt_attempt, rt_delay,
                   rt_last_exception, rt_log>>

RtNext ==
    \/ AttemptReturns
    \/ AttemptFails
    \/ AttemptEscapes
    \/ RaiseLast

----------------------------------------------------------------------------
(* PaidScreener.analyze_asset *)

MaxChartPatterns == 2       \* patterns in the list detect_all returns

\* the methods class Database defines
DatabaseMethods ==
    {"get_session", "save_candles", "get_candles", "save_signal", "save_pattern",
     "save_levels"}

\* what check_breakout returns with volume_confirmation = True
BreakoutResults ==
    {NoBreakout,
     [breakout |-> TRUE, level_type |-> "resistance", price |-> 103, strength |-> 60],
     [breakout |-> TRUE, level_type |-> "support", price |-> 97, strength |-> 60]}

\* a stored series of len bars, and on it: the result of check_breakout,
\* whether detect found a pattern, how many patterns detect_all found and
\* whether generate_signal returned a signal
StoredSeries ==
    [len : {0, 99, 100, 500},
     breakout : BreakoutResults,
     pattern : BOOLEAN,
     chart_patterns : 0..MaxChartPatterns,
     signal : BOOLEAN]

AnInit ==
    /\ an_pc = "idle"
    /\ an_df \in {d \in StoredSeries :
                     d.len < MinBars =>
                         /\ ~d.signal
                         /\ d.len < MinPatternLength =>
                               /\ d.breakout = NoBreakout
                               /\ ~d.pattern
                               /\ d.chart_patterns = 0}
    /\ an_results = {}
    /\ an_saved = <<>>
    /\ an_error = None

AnOff ==
    /\ an_pc = "off"
    /\ an_df = [len |-> 0, breakout |-> NoBreakout, pattern |-> FALSE,
                chart_patterns |-> 0, signal |-> FALSE]
    /\ an_results = {}
    /\ an_saved = <<>>
    /\ an_error = None

\* self.database.<method>(...): an attribute the class does not define
\* raises AttributeError
HasMethod(method) == method \in DatabaseMethods

\* lines 101-110: the first keys and the levels (find_levels returns a
\* dictionary of two keys, which is true)
LevelsStep == [results |-> {"current_price", "candles_count", "rsi", "levels"},
               saved |-> <<"save_levels">>]

\* lines 112-130: the breakout
BreakoutStep(d, st) ==
    IF d.breakout.breakout
    THEN [results |-> st.results \cup {"breakout"},
          saved |-> Append(st.saved, "save_breakout")]
    ELSE st

\* lines 132-140: the head-and-shoulders pattern
PatternStep(d, st) ==
    IF d.pattern
    THEN [results |-> st.results \cup {"pattern"},
          saved |-> Append(st.saved, "save_pattern")]
    ELSE st

\* lines 142-158: the chart patterns, one save_pattern each
ChartPatternsStep(d, st) ==
    IF d.chart_patterns > 0
    THEN [results |-> st.results \cup {"chart_patterns"},
          saved |-> st.saved \o [i \in 1..d.chart_patterns |-> "save_pattern"]]
    ELSE st

\* lines 160-163: the signal
SignalStep(d, st) ==
    IF d.signal
    THEN [results |-> st.results \cup {"signal"},
          saved |-> Append(st.saved, "save_signal")]
    ELSE st

\* the steps of lines 101-163 in order
AnalysisSteps(d) ==
    SignalStep(d, ChartPatternsStep(d, PatternStep(d, BreakoutStep(d, LevelsStep))))

\* the longest prefix of the calls whose methods all exist
RECURSIVE CallsBeforeError(_)
CallsBeforeError(calls) ==
    IF calls = <<>> \/ ~HasMethod(Head(calls)) THEN <<>>
    ELSE <<Head(calls)>> \o CallsBeforeError(Tail(calls))

\* lines 92-94: fewer than 100 stored bars
AnalyzeAssetShort ==
    /\ an_pc = "idle"
    /\ an_df.len < MinBars
    /\ an_results' = {}
    /\ an_pc' = "returned"
    /\ UNCHANGED <<an_df, an_saved, an_error>>

\* lines 96-165: every step ran and the results are returned
AnalyzeAssetCompletes ==
    /\ an_pc = "idle"
    /\ an_df.len >= MinBars
    /\ LET st == AnalysisSteps(an_df)
       IN /\ \A i \in 1..Len(st.saved) : HasMethod(st.saved[i])
          /\ an_results' = st.results
          /\ an_saved' = st.saved
    /\ an_pc' = "returned"
    /\ UNCHANGED <<an_df, an_error>>

\* lines 96-168: a call raised; the exception is caught, logged and the empty
\* dictionary is returned; what was saved before stays saved
AnalyzeAssetFails ==
    /\ an_pc = "idle"
    /\ an_df.len >= MinBars
    /\ LET st == AnalysisSteps(an_df)
       IN /\ \E i \in 1..Len(st.saved) : ~HasMethod(st.saved[i])
          /\ an_saved' = CallsBeforeError(st.saved)
    /\ an_results' = {}
    /\ an_error' = "AttributeError"
    /\ an_pc' = "returned"
    /\ UNCHANGED an_df

AnNext ==
    \/ AnalyzeAssetShort
    \/ AnalyzeAssetCompletes
    \/ AnalyzeAssetFails

----------------------------------------------------------------------------
(* Database.save_candles, Database.get_candles, PaidScreener.fetch_and_save_data *)

MaxFetches == 2       \* fetch_and_save_data calls
MaxTime == 3          \* timestamps of the exchange's bars

\* a frame the exchange manager returns: the bars first..last in ascending
\* order, each closing at close; the empty frame when first > last
ExchangeFrame(first, last, close) ==
    [i \in 1..(last - first + 1) |-> [timestamp |-> first + i - 1, close |-> close]]

\* session.merge(candle) of a Candle built without id: no primary key to
\* look up, so a new row is inserted under the next id (lines 99-111)
RECURSIVE SaveCandles(_, _)
SaveCandles(table, rows) ==
    IF rows = <<>> THEN table
    ELSE SaveCandles(Append(table, [id |-> Len(table) + 1,
                                    timestamp |-> Head(rows).timestamp,
                                    close |-> Head(rows).close]),
                     Tail(rows))

\* ORDER BY timestamp DESC: the rows by descending timestamp; rows of equal
\* timestamp come in an order the query does not fix
RECURSIVE OrderByTimestampDesc(_)
OrderByTimestampDesc(rows) ==
    IF rows = {} THEN {<<>>}
    ELSE LET latest == {r \in rows : \A q \in rows : q.timestamp <= r.timestamp}
         IN UNION {{<<r>> \o rest : rest \in OrderByTimestampDesc(rows \ {r})} :
                     r \in latest}

Reversed(seq) == [i \in 1..Len(seq) |-> seq[Len(seq) + 1 - i]]

\* lines 129-151: the newest limit rows (all rows when limit is None or 0),
\* oldest first, as rows of timestamp and close
GetCandles(table, limit) ==
    {LET taken == IF limit > 0 /\ limit < Len(ordered)
                  THEN SubSeq(ordered, 1, limit) ELSE ordered
     IN [i \in 1..Len(taken) |->
            [timestamp |-> Reversed(taken)[i].timestamp,
             close |-> Reversed(taken)[i].close]] :
        ordered \in OrderByTimestampDesc({table[i] : i \in 1..Len(table)})}

DbInit ==
    /\ db_candles = <<>>
    /\ db_fetches = 0
    /\ db_df = <<>>

DbOff ==
    /\ db_candles = <<>>
    /\ db_fetches = MaxFetches + 2
    /\ db_df = <<>>

\* main.py lines 70-79: the frame is fetched and saved (an empty frame is
\* not saved)
FetchAndSaveData ==
    /\ db_fetches < MaxFetches
    /\ \E first \in 1..MaxTime, last \in 0..MaxTime, close \in {100, 101} :
          LET frame == ExchangeFrame(first, last, close)
          IN db_candles' = IF frame = <<>> THEN db_candles
                           ELSE SaveCandles(db_candles, frame)
    /\ db_fetches' = db_fetches + 1
    /\ UNCHANGED db_df

\* main.py lines 72, 80-81: get_ohlcv raises; the error is logged
FetchFails ==
    /\ db_fetches < MaxFetches
    /\ db_fetches' = db_fetches + 1
    /\ UNCHANGED <<db_candles, db_df>>

\* get_candles(asset, timeframe, limit)
GetCandlesCall ==
    /\ db_fetches <= MaxFetches
    /\ \E limit \in {0, 2} : db_df' \in GetCandles(db_candles, limit)
    /\ UNCHANGED <<db_candles, db_fetches>>

DbNext ==
    \/ FetchAndSaveData
    \/ FetchFails
    \/ GetCandlesCall

----------------------------------------------------------------------------
(* Claims about the aggregator *)

Returned == gen_pc = "returned"

\* C1: generate_signal returns no signal whenever the buy score equals the
\* sell score, whether the two are compared before or after the volume
\* bonus; _evaluate_signals decides nothing on equal final scores.
C1_NoSignalOnTie ==
    Returned =>
        /\ scores.buy = scores.sell => (decision = NoSignal /\ result = NoSignal)
        /\ scores.pre_buy = scores.pre_sell => result = NoSignal

\* a long series on which both sides gathered the same positive evidence
C1_Witness ==
    /\ Returned
    /\ ~InsufficientData(df)
    /\ scores.buy = scores.sell
    /\ scores.buy > 0
    /\ result = NoSignal

\* C2: on a series of fewer than 100 bars generate_signal returns no signal,
\* whatever the detectors would find in it, and it runs no detector.
C2_ShortSeriesNoSignal ==
    (Returned /\ df.len < MinBars) =>
        (result = NoSignal /\ detected = NoDetect)

\* 99 bars that carry a bullish candle and a bullish head-and-shoulders
C2_Witness ==
    /\ Returned
    /\ df.len = MinBars - 1
    /\ on_df.candlestick_pattern = "Hammer"
    /\ on_df.head_shoulders.pattern_direction = "BULLISH"
    /\ result = NoSignal

\* C3: _evaluate_signals decides BUY exactly when buy > sell and buy > 0.5,
\* SELL exactly when sell > buy and sell > 0.5, and nothing otherwise; the
\* confidence is the winning score, and a returned signal is that decision.
C3_Decision ==
    (Returned /\ df.len >= MinBars) =>
        LET b == scores.buy
            s == scores.sell
        IN /\ decision.signal_type = "BUY" <=> (b > s /\ b > DecisionThreshold)
           /\ decision.signal_type = "SELL" <=> (s > b /\ s > DecisionThreshold)
           /\ decision = NoSignal <=>
                ~(b > s /\ b > DecisionThreshold) /\ ~(s > b /\ s > DecisionThreshold)
           /\ decision.signal_type = "BUY" => decision.confidence = b
           /\ decision.signal_type = "SELL" => decision.confidence = s
           /\ result # NoSignal => result = decision

\* a SELL decided against positive buy evidence
C3_Witness ==
    /\ Returned
    /\ decision.signal_type = "SELL"
    /\ scores.buy > 0
    /\ scores.sell > scores.buy

\* C4: with volume confirmation 0.1 goes to the side that leads before the
\* bonus: to buy only if buy > sell, to sell only if sell > buy, and to no
\* side that does not lead; without confirmation the scores stay.
C4_VolumeBonusToLeader ==
    (Returned /\ df.len >= MinBars) =>
        /\ scores.buy # scores.pre_buy => scores.pre_buy > scores.pre_sell
        /\ scores.sell # scores.pre_sell => scores.pre_sell > scores.pre_buy
        /\ (scores.volume /\ scores.pre_buy > scores.pre_sell) =>
               (scores.buy = scores.pre_buy + VolumeWeight /\ scores.sell = scores.pre_sell)
        /\ (scores.volume /\ scores.pre_sell > scores.pre_buy) =>
               (scores.sell = scores.pre_sell + VolumeWeight /\ scores.buy = scores.pre_buy)
        /\ ~scores.volume =>
               (scores.buy = scores.pre_buy /\ scores.sell = scores.pre_sell)

\* the positions of the levels that no other level of the list is closer to
\* the price than
NearestLevels(current_price, levels) ==
    {k \in 1..Len(levels) :
        \A j \in 1..Len(levels) :
            Abs(current_price - levels[k].price) <= Abs(current_price - levels[j].price)}

\* what a list of levels adds to its side when only a level nearest to the
\* price counts: 0.2 x its strength if it lies within 2% of the price
NearestEvidence(current_price, levels) ==
    IF Len(levels) = 0 THEN {0}
    ELSE {IF NearPrice(current_price, levels[k].price)
          THEN (LevelWeight * levels[k].strength) \div 100
          ELSE 0 : k \in NearestLevels(current_price, levels)}

\* C19: the levels add to buy_score 0.2 x the strength of the support
\* nearest to the current price if it lies within 2% of the price, and to
\* sell_score 0.2 x the strength of the resistance nearest to the price if
\* it lies within 2%; nothing else comes from the levels.
C19_NearestLevelEvidence ==
    (Returned /\ ~InsufficientData(df)) =>
        LET c == CandleEvidence(detected.candlestick_pattern)
            p == PatternEvidence(detected.head_shoulders)
        IN /\ scores.pre_buy - c[1] - p[1]
                 \in NearestEvidence(df.close, detected.levels.support_levels)
           /\ scores.pre_sell - c[2] - p[2]
                 \in NearestEvidence(df.close, detected.levels.resistance_levels)

\* the highest of the prices of the levels below the price, and the lowest
\* of those above it
HighestBelow(current_price, levels) ==
    CHOOSE x \in {levels[k].price : k \in 1..Len(levels)} :
        /\ x < current_price
        /\ \A k \in 1..Len(levels) :
              levels[k].price < current_price => levels[k].price <= x

LowestAbove(current_price, levels) ==
    CHOOSE x \in {levels[k].price : k \in 1..Len(levels)} :
        /\ x > current_price
        /\ \A k \in 1..Len(levels) :
              levels[k].price > current_price => levels[k].price >= x

\* C20: the entry price of a signal is the latest close.  The stop of a BUY
\* is 0.995 x the highest support strictly below the price, or 0.97 x the
\* entry if no support lies below the price; the stop of a SELL is 1.005 x
\* the lowest resistance strictly above the price, or 1.03 x the entry if
\* none lies above.  The stop of a BUY is below its entry, that of a SELL
\* above it.
C20_StopLoss ==
    (Returned /\ decision # NoSignal) =>
        LET supports == detected.levels.support_levels
            resistances == detected.levels.resistance_levels
        IN /\ decision.entry_price = 1000 * df.close
           /\ decision.signal_type = "BUY" =>
                 /\ decision.stop_loss =
                       IF \E k \in 1..Len(supports) : supports[k].price < df.close
                       THEN 995 * HighestBelow(df.close, supports)
                       ELSE 970 * df.close
                 /\ decision.stop_loss < decision.entry_price
           /\ decision.signal_type = "SELL" =>
                 /\ decision.stop_loss =
                       IF \E k \in 1..Len(resistances) : resistances[k].price > df.close
                       THEN 1005 * LowestAbove(df.close, resistances)
                       ELSE 1030 * df.close
                 /\ decision.stop_loss > decision.entry_price
           /\ result # NoSignal => result = decision

\* a BUY returned on supports at both sides of the price, the stronger one
\* above it: the stop stands under the support below the price
C20_Witness ==
    /\ Returned
    /\ result.signal_type = "BUY"
    /\ Len(detected.levels.support_levels) = 2
    /\ detected.levels.support_levels[1].price > df.close
    /\ detected.levels.support_levels[2].price < df.close
    /\ result.stop_loss = 995 * detected.levels.support_levels[2].price

\* the positions of the levels on the far side of the price: above it for
\* a BUY, below it for a SELL
Favorable(levels, current_price, above) ==
    {k \in 1..Len(levels) :
        IF above THEN levels[k].price > current_price
        ELSE levels[k].price < current_price}

\* position i is a nearest one to the price among the positions S
NearestOf(levels, current_price, S, i) ==
    /\ i \in S
    /\ \A j \in S : Abs(current_price - levels[i].price)
                       <= Abs(current_price - levels[j].price)

\* targets is the list of the two favorable levels nearest to the price
\* (of the only one, or empty), the nearest first, at 0.7 and 0.5
ProximityTargets(targets, levels, current_price, above) ==
    LET fav == Favorable(levels, current_price, above)
    IN /\ Len(targets) = Min2(2, Cardinality(fav))
       /\ \A k \in 1..Len(targets) : targets[k].probability = 70 - 20 * (k - 1)
       /\ Len(targets) >= 1 =>
             \E i \in fav :
                /\ NearestOf(levels, current_price, fav, i)
                /\ targets[1].level = 1000 * levels[i].price
                /\ Len(targets) = 2 =>
                      \E j \in fav \ {i} :
                         /\ NearestOf(levels, current_price, fav \ {i}, j)
                         /\ targets[2].level = 1000 * levels[j].price

\* C21: the take-profit list of a signal starts with the favorable levels
\* (resistances above the price for a BUY, supports below it for a SELL),
\* at most two, the nearest to the price first, at probabilities 0.7 and
\* 0.5; the target of a head-and-shoulders pattern follows at 0.6; without
\* a favorable level the list holds the 5% target (1.05 x price for a BUY,
\* 0.95 x price for a SELL) at 0.7, or at least the pattern's target.
C21_TakeProfitByProximity ==
    (Returned /\ decision # NoSignal) =>
        LET buy == decision.signal_type = "BUY"
            levels == IF buy THEN detected.levels.resistance_levels
                      ELSE detected.levels.support_levels
            n == Min2(2, Cardinality(Favorable(levels, df.close, buy)))
            pattern == IF detected.head_shoulders = NoPattern THEN <<>>
                       ELSE <<[level |-> 1000 * detected.head_shoulders.target_price,
                               probability |-> 60]>>
            flat == [level |-> df.close * (IF buy THEN 1050 ELSE 950), probability |-> 70]
            tp == decision.take_profit
        IN IF n > 0
           THEN /\ Len(tp) = n + Len(pattern)
                /\ ProximityTargets(SubSeq(tp, 1, n), levels, df.close, buy)
                /\ SubSeq(tp, n + 1, Len(tp)) = pattern
           ELSE \/ \E k \in 1..Len(tp) : tp[k] = flat
                \/ (pattern # <<>> /\ tp = pattern)

\* C25: every take-profit level of a returned BUY lies strictly above its
\* entry price and every take-profit level of a returned SELL strictly below
\* it, the target of a head-and-shoulders pattern included; the list is
\* never empty.
C25_TakeProfitSide ==
    (gen_pc = "returned" /\ result # NoSignal) =>
        /\ Len(result.take_profit) >= 1
        /\ \A i \in 1..Len(result.take_profit) :
              IF result.signal_type = "BUY"
              THEN result.take_profit[i].level > result.entry_price
              ELSE result.take_profit[i].level < result.entry_price

\* C26: the confidence of a returned signal is the score of the winning
\* side, it is at least min_confidence, above 0.5 and at most 1.0; a decided
\* signal whose score is below min_confidence is dropped and None is
\* returned, so a winning score between 0.5 and 0.6 never yields a signal.
C26_ConfidenceFloor ==
    gen_pc = "returned" =>
        /\ result # NoSignal =>
              /\ result.confidence =
                    (IF result.signal_type = "BUY" THEN scores.buy ELSE scores.sell)
              /\ result.confidence >= MinConfidence
              /\ result.confidence > DecisionThreshold
              /\ result.confidence <= 100
              /\ result = decision
        /\ (decision # NoSignal /\ decision.confidence < MinConfidence) =>
              result = NoSignal

\* a side won with a score between 0.5 and 0.6 and nothing was returned
C26_Witness ==
    /\ gen_pc = "returned"
    /\ decision # NoSignal
    /\ decision.confidence > DecisionThreshold
    /\ decision.confidence < MinConfidence
    /\ decision.confidence = (IF decision.signal_type = "BUY" THEN scores.buy ELSE scores.sell)
    /\ result = NoSignal

----------------------------------------------------------------------------
(* Claims about the candlestick analyzer *)

CsReturned == cs_pc = "returned"

\* C5: analyze returns the label of the first matching test in the order
\* Hammer, Engulfing, Doji, Shooting Star, Evening Star, Morning Star: the
\* returned label is the result of its own test and every test before it
\* found nothing; None is returned exactly when no test matches.
C5_FirstMatchingTest ==
    CsReturned =>
        LET found == PatternTests(cs_df)
        IN /\ cs_result \in CandleLabels \cup {None}
           /\ cs_result # None =>
                \E k \in 1..Len(found) :
                    /\ found[k] = cs_result
                    /\ \A j \in 1..(k - 1) : found[j] = None
           /\ cs_result = None <=> \A k \in 1..Len(found) : found[k] = None

\* the part of C5 that the code keeps: from three bars on
CascadeFromThreeBars ==
    Len(cs_df) >= CandleWindow => C5_FirstMatchingTest

\* C6: on fewer than 3 bars only the 3-bar tests are skipped: the result is
\* the first label among the tests that can run, so one bar that is a
\* Hammer yields "Hammer".
C6_ShortSeriesStillTested ==
    (CsReturned /\ Len(cs_df) < CandleWindow) =>
        /\ cs_result = FirstLabel(<<DetectHammer(cs_df), DetectEngulfing(cs_df),
                                    DetectDoji(cs_df), DetectShootingStar(cs_df)>>)
        /\ DetectHammer(cs_df) = "Hammer" => cs_result = "Hammer"

----------------------------------------------------------------------------
(* Claims about the RSI calculator *)

RsiReturned == rsi_pc = "returned"

IsHundred(x) == x.kind = "fin" /\ REq(x, Ratio(100, 1))
IsZero(x) == x.kind = "fin" /\ REq(x, Ratio(0, 1))

StrictlyRising(closes) == \A i \in 2..Len(closes) : closes[i] > closes[i - 1]
StrictlyFalling(closes) == \A i \in 2..Len(closes) : closes[i] < closes[i - 1]

\* C7: on a series of at least period + 1 bars, every bar whose last
\* `period` deltas hold no loss has RSI 100 (a number, not NaN), also when
\* they hold no gain either; so has the value analyze reports.
C7_ZeroLossSaturates ==
    (RsiReturned /\ Len(rsi_closes) >= rsi_period + 1) =>
        /\ \A i \in (rsi_period + 1)..Len(rsi_closes) :
              LossSum(rsi_closes, i, rsi_period) = 0 => IsHundred(rsi_series[i])
        /\ LossSum(rsi_closes, Len(rsi_closes), rsi_period) = 0 => IsHundred(rsi_value)

\* C8: on at least period + 1 bars of strictly increasing closes the RSI of
\* the last bar is 100, on strictly decreasing closes it is 0.
C8_MonotoneSaturates ==
    (RsiReturned /\ Len(rsi_closes) >= rsi_period + 1) =>
        /\ StrictlyRising(rsi_closes) => IsHundred(rsi_value)
        /\ StrictlyFalling(rsi_closes) => IsZero(rsi_value)

\* period 14 on the closes 100, 101, ..., 114
C8_Witness ==
    /\ RsiReturned
    /\ rsi_period = DefaultPeriod
    /\ rsi_closes = Rising
    /\ IsHundred(rsi_value)
    /\ rsi_info.zone = "OVERBOUGHT"

\* C9: get_signal puts every RSI value of [0, 100] in exactly one zone:
\* below 30 OVERSOLD (BUY), from 30 to below 40 NEAR_OVERSOLD (BUY), from 40
\* to 60 NEUTRAL, above 60 up to 70 NEAR_OVERBOUGHT (SELL), above 70
\* OVERBOUGHT (SELL), with the strength of the zone table, always in [0, 1].
C9_ZoneTable ==
    (rsi_pc = "classified" /\ ~IsNaN(rsi_value)) =>
        LET n == rsi_value.num
            d == rsi_value.den
            z == rsi_info.zone
            st == rsi_info.strength
            Capped(x) == IF x.num >= x.den THEN REq(st, Ratio(1, 1)) ELSE REq(st, x)
        IN /\ z = "OVERSOLD" <=> n < 30 * d
           /\ z = "NEAR_OVERSOLD" <=> (30 * d <= n /\ n < 40 * d)
           /\ z = "NEUTRAL" <=> (40 * d <= n /\ n <= 60 * d)
           /\ z = "NEAR_OVERBOUGHT" <=> (60 * d < n /\ n <= 70 * d)
           /\ z = "OVERBOUGHT" <=> n > 70 * d
           /\ rsi_info.signal = "BUY" <=> z \in {"OVERSOLD", "NEAR_OVERSOLD"}
           /\ rsi_info.signal = "SELL" <=> z \in {"OVERBOUGHT", "NEAR_OVERBOUGHT"}
           /\ rsi_info.signal = "NEUTRAL" <=> z = "NEUTRAL"
           /\ z = "OVERSOLD" => Capped(Ratio(30 * d - n, 20 * d))
           /\ z = "NEAR_OVERSOLD" => REq(st, Ratio(40 * d - n, 40 * d))
           /\ z = "NEUTRAL" => REq(st, Ratio(0, 1))
           /\ z = "NEAR_OVERBOUGHT" => REq(st, Ratio(n - 60 * d, 40 * d))
           /\ z = "OVERBOUGHT" => Capped(Ratio(n - 70 * d, 20 * d))
           /\ st.den > 0 /\ 0 <= st.num /\ st.num <= st.den

\* RSI 30 exactly: NEAR_OVERSOLD with strength 0.25
C9_Witness ==
    /\ rsi_pc = "classified"
    /\ REq(rsi_value, Ratio(30, 1))
    /\ rsi_info.zone = "NEAR_OVERSOLD"
    /\ REq(rsi_info.strength, Ratio(1, 4))

----------------------------------------------------------------------------
(* Claims about the level clustering *)

LvReturned == lv_pc = "returned"

FirstIndex(group) == group.indices[1]

Members(group) == {group.indices[k] : k \in 1..Len(group.indices)}

\* price_groups is what the greedy rule makes of the values: every bar lies
\* in one bucket; buckets stand in the order of their first bars and are
\* keyed by the raw value of that bar; each bar lies in the first bucket, in
\* that order, whose key its value is within tolerance of.
GreedyBuckets(values, price_groups) ==
    LET B == 1..Len(price_groups)
    IN /\ \A i \in 1..Len(values) :
             Cardinality({b \in B : i \in Members(price_groups[b])}) = 1
       /\ \A b \in B :
             LET g == price_groups[b]
             IN /\ Len(g.indices) >= 1
                /\ \A k \in 1..(Len(g.indices) - 1) : g.indices[k] < g.indices[k + 1]
                /\ Members(g) \subseteq 1..Len(values)
                /\ g.price = values[FirstIndex(g)]
                /\ \A m \in Members(g) :
                      /\ WithinTolerance(values[m], g.price)
                      /\ \A a \in 1..(b - 1) :
                            ~WithinTolerance(values[m], price_groups[a].price)
       /\ \A a, b \in B :
             a < b => FirstIndex(price_groups[a]) < FirstIndex(price_groups[b])

\* C10: the clustering of highs and of lows is the greedy, order-dependent
\* rule: bars in series order, each value into the first bucket in creation
\* order whose key it is within price_tolerance of, else into a new bucket
\* keyed by the raw value; a key never changes.
C10_GreedyClustering ==
    (LvReturned /\ Len(lv_df) >= LevelsMinBars) =>
        /\ GreedyBuckets(Highs(lv_df), lv_groups.resistance)
        /\ GreedyBuckets(Lows(lv_df), lv_groups.support)

\* a high within tolerance of two keys, which joined the earlier bucket
C10_Witness ==
    /\ LvReturned
    /\ \E a, b \in 1..Len(lv_groups.resistance) :
          /\ a < b
          /\ \E m \in Members(lv_groups.resistance[a]) :
                /\ m > FirstIndex(lv_groups.resistance[b])
                /\ WithinTolerance(lv_df[m].high, lv_groups.resistance[b].price)
                /\ lv_df[m].high # lv_groups.resistance[a].price

\* the position in price_groups of the bucket keyed by `price`; 0 if none
BucketOf(price_groups, price) ==
    IF \E b \in 1..Len(price_groups) : price_groups[b].price = price
    THEN CHOOSE b \in 1..Len(price_groups) : price_groups[b].price = price
    ELSE 0

Reportable(price_groups) ==
    {b \in 1..Len(price_groups) : Len(price_groups[b].indices) >= MinTouches}

\* the levels of one side against the buckets they come from
TopLevelsOf(price_groups, levels) ==
    LET L == 1..Len(levels)
        Pos(k) == BucketOf(price_groups, levels[k].price)
        Returned_ == {Pos(k) : k \in L}
    IN /\ Len(levels) <= TopLevels
       /\ \A k \in L :
             /\ Pos(k) \in Reportable(price_groups)
             /\ levels[k].touches = Len(price_groups[Pos(k)].indices)
             /\ levels[k].touches >= MinTouches
             /\ levels[k].strength =
                    (IF levels[k].touches >= StrengthCap THEN 100
                     ELSE (100 * levels[k].touches) \div StrengthCap)
             /\ 0 <= levels[k].strength /\ levels[k].strength <= 100
       /\ \A j, k \in L :
             j < k => /\ levels[j].strength >= levels[k].strength
                      /\ levels[j].strength = levels[k].strength => Pos(j) < Pos(k)
       /\ \A b \in Reportable(price_groups) \ Returned_ :
             /\ Len(levels) = TopLevels
             /\ \A k \in L :
                   LevelStrength(Len(price_groups[b].indices)) <= levels[k].strength

\* C11: every level find_levels returns has touches >= min_touches and
\* strength min(touches / 5, 1) in [0, 1]; a side returns at most 5 levels,
\* strongest first, equally strong levels in the order their buckets were
\* discovered; a reportable bucket is left out only when five are returned
\* and is no stronger than any returned level.
C11_TopLevels ==
    LvReturned =>
        /\ TopLevelsOf(lv_groups.resistance, lv_levels.resistance_levels)
        /\ TopLevelsOf(lv_groups.support, lv_levels.support_levels)

\* more than five reportable buckets: one is left out, and among the five
\* returned an equally strong pair stands in discovery order with ascending
\* touches
C11_Witness ==
    /\ LvReturned
    /\ Cardinality(Reportable(lv_groups.resistance)) > TopLevels
    /\ Len(lv_levels.resistance_levels) = TopLevels
    /\ \E k \in 1..(TopLevels - 1) :
          /\ lv_levels.resistance_levels[k].strength =
                lv_levels.resistance_levels[k + 1].strength
          /\ lv_levels.resistance_levels[k].touches <
                lv_levels.resistance_levels[k + 1].touches
    /\ lv_levels.resistance_levels[TopLevels].strength < 100

\* the pivot prices of a series
PivotPrices(values) == {values[j] : j \in 1..Len(values)}

\* the prices that are within tolerance of x, or x of them
Around(values, x) ==
    {y \in PivotPrices(values) : WithinTolerance(y, x) \/ WithinTolerance(x, y)}

Occurrences(values, prices) == {j \in 1..Len(values) : values[j] \in prices}

\* the pivots around x are a group: at least min_touches pivots, each within
\* tolerance of each other, and no other pivot within tolerance of them
IsGroup(values, x) ==
    LET S == Around(values, x)
    IN /\ Cardinality(Occurrences(values, S)) >= MinTouches
       /\ \A y, z \in S : WithinTolerance(y, z)
       /\ \A y \in S : \A o \in PivotPrices(values) \ S :
             ~WithinTolerance(o, y) /\ ~WithinTolerance(y, o)

LevelsAt(levels, prices) == {k \in 1..Len(levels) : levels[k].price \in prices}

\* exactly one level stands for the group around x, with its pivot count
SurfacesOnce(values, levels, x) ==
    LET S == Around(values, x)
    IN /\ Cardinality(LevelsAt(levels, S)) = 1
       /\ \A k \in LevelsAt(levels, S) :
             levels[k].touches = Cardinality(Occurrences(values, S))

\* the reportable buckets that the stable sort puts ahead of bucket b
Ahead(price_groups, b) ==
    {a \in Reportable(price_groups) :
        \/ LevelStrength(Len(price_groups[a].indices))
              > LevelStrength(Len(price_groups[b].indices))
        \/ /\ LevelStrength(Len(price_groups[a].indices))
                = LevelStrength(Len(price_groups[b].indices))
           /\ a < b}

\* the bucket that holds the group around x
GroupBucket(values, price_groups, x) ==
    CHOOSE b \in 1..Len(price_groups) : price_groups[b].price \in Around(values, x)

\* C12 as stated: whenever a series holds a group of n >= min_touches pivot
\* prices within tolerance of each other and of no other pivot, find_levels
\* returns exactly one level for the group, with touches n.
C12_GroupSurfaces ==
    LvReturned =>
        /\ \A x \in PivotPrices(Highs(lv_df)) :
              IsGroup(Highs(lv_df), x) =>
                 SurfacesOnce(Highs(lv_df), lv_levels.resistance_levels, x)
        /\ \A x \in PivotPrices(Lows(lv_df)) :
              IsGroup(Lows(lv_df), x) =>
                 SurfacesOnce(Lows(lv_df), lv_levels.support_levels, x)

\* one side of C12 as the code keeps it
GroupSurfacesInTop(values, price_groups, levels) ==
    \A x \in PivotPrices(values) :
        IsGroup(values, x) =>
           LET S == Around(values, x)
               b == GroupBucket(values, price_groups, x)
           IN /\ Cardinality({a \in 1..Len(price_groups) : price_groups[a].price \in S}) = 1
              /\ Len(price_groups[b].indices) = Cardinality(Occurrences(values, S))
              /\ IF Cardinality(Ahead(price_groups, b)) < TopLevels
                 THEN SurfacesOnce(values, levels, x)
                 ELSE LevelsAt(levels, S) = {}

\* C12 amended: on a series of at least 20 bars such a group falls, in any
\* order of its pivots, into one bucket of n members; find_levels returns
\* exactly one level for it, with touches n, when fewer than five reportable
\* buckets of the side are stronger or equally strong and discovered
\* earlier, and no level for it otherwise.
C12_GroupSurfacesInTop ==
    (LvReturned /\ Len(lv_df) >= LevelsMinBars) =>
        /\ GroupSurfacesInTop(Highs(lv_df), lv_groups.resistance,
                              lv_levels.resistance_levels)
        /\ GroupSurfacesInTop(Lows(lv_df), lv_groups.support,
                              lv_levels.support_levels)

\* a group of two different prices whose later price came first in the
\* series, returned as one level that carries all twenty touches
C12_Witness ==
    /\ LvReturned
    /\ Len(lv_df) = LevelsMinBars
    /\ IsGroup(Highs(lv_df), lv_df[1].high)
    /\ Cardinality(Around(Highs(lv_df), lv_df[1].high)) = 2
    /\ lv_df[1].high > lv_df[2].high
    /\ SurfacesOnce(Highs(lv_df), lv_levels.resistance_levels, lv_df[1].high)
    /\ lv_levels.resistance_levels[1].touches = LevelsMinBars

RECURSIVE MemberCount(_, _)
MemberCount(price_groups, b) ==
    IF b = 0 THEN 0
    ELSE Len(price_groups[b].indices) + MemberCount(price_groups, b - 1)

\* every bar is a member of one bucket only, the member counts add up to
\* the number of bars, and every key is farther than the tolerance,
\* relative to the earlier key, from each key created before it
SeparatedPartition(n, price_groups) ==
    LET B == 1..Len(price_groups)
    IN /\ MemberCount(price_groups, Len(price_groups)) = n
       /\ \A i \in 1..n : \E b \in B : i \in Members(price_groups[b])
       /\ \A a, b \in B :
             a # b => Members(price_groups[a]) \cap Members(price_groups[b]) = {}
       /\ \A b \in B :
             Cardinality(Members(price_groups[b])) = Len(price_groups[b].indices)
       /\ \A a, b \in B :
             a < b => ~WithinTolerance(price_groups[b].price, price_groups[a].price)

\* of two returned levels, the one whose bucket was created later is
\* farther than the tolerance from the other
SeparatedLevels(price_groups, levels) ==
    \A x, y \in 1..Len(levels) :
        LET a == BucketOf(price_groups, levels[x].price)
            b == BucketOf(price_groups, levels[y].price)
        IN /\ a > 0
           /\ b > 0
           /\ x # y => a # b
           /\ a < b => ~WithinTolerance(levels[y].price, levels[x].price)

\* C30: in the clustering of a side every bar's pivot lies in exactly one
\* bucket, so the member counts add up to the number of bars, and every key
\* differs from each earlier key k by more than price_tolerance relative to
\* k; hence no two returned levels of a side lie within tolerance of the
\* one that was found first.
C30_BucketsPartition ==
    (LvReturned /\ Len(lv_df) >= LevelsMinBars) =>
        /\ SeparatedPartition(Len(lv_df), lv_groups.resistance)
        /\ SeparatedPartition(Len(lv_df), lv_groups.support)
        /\ SeparatedLevels(lv_groups.resistance, lv_levels.resistance_levels)
        /\ SeparatedLevels(lv_groups.support, lv_levels.support_levels)

\* two resistances were returned from buckets of several bars, one of which
\* took a high other than its key
C30_Witness ==
    /\ LvReturned
    /\ Len(lv_df) >= LevelsMinBars
    /\ Len(lv_levels.resistance_levels) >= 2
    /\ \E b \in 1..Len(lv_groups.resistance) :
          \E m \in Members(lv_groups.resistance[b]) :
              lv_df[m].high # lv_groups.resistance[b].price

----------------------------------------------------------------------------
(* Claims about check_breakout *)

BkReturned == bk_pc = "returned"

\* the positions of the levels that the last two bars cross
CrossedUp(bars, levels) ==
    {k \in 1..Len(levels) :
        bars[Len(bars) - 1].high < levels[k].price
        /\ levels[k].price < bars[Len(bars)].high}

CrossedDown(bars, levels) ==
    {k \in 1..Len(levels) :
        bars[Len(bars) - 1].low > levels[k].price
        /\ levels[k].price > bars[Len(bars)].low}

First(S) == CHOOSE k \in S : \A j \in S : k <= j

\* the sum of the volumes of the last 20 bars (of all bars, if fewer)
TrailingVolume(bars) ==
    LET from == IF Len(bars) > VolumeWindow THEN Len(bars) - VolumeWindow + 1 ELSE 1
    IN VolumeSum([i \in 1..(Len(bars) - from + 1) |-> bars[from + i - 1]],
                 Len(bars) - from + 1)

TrailingCount(bars) == IF Len(bars) > VolumeWindow THEN VolumeWindow ELSE Len(bars)

\* current volume > 1.2 x the trailing average
VolumeConfirms(bars) ==
    5 * bars[Len(bars)].volume * TrailingCount(bars) > 6 * TrailingVolume(bars)

SupportExample == [price |-> 95, strength |-> 80]

\* C14: with volume confirmation required, a breakout is reported only if
\* the current volume exceeds 1.2 x the trailing 20-bar average, and none is
\* reported otherwise; the support level 95 of strength 0.8 alone, previous
\* low 96, current low 94 and a current volume of 1.3 x the average give
\* {breakout: true, level_type: "support", price: 95, strength: 0.8}.
C14_VolumeConfirmation ==
    (BkReturned /\ bk_confirm) =>
        /\ bk_result.breakout => (Len(bk_df) >= 2 /\ VolumeConfirms(bk_df))
        /\ (Len(bk_df) >= 2 /\ ~VolumeConfirms(bk_df)) => bk_result = NoBreakout
        /\ ( /\ Len(bk_df) >= 2
             /\ bk_levels.support_levels = <<SupportExample>>
             /\ bk_levels.resistance_levels = <<>>
             /\ bk_df[Len(bk_df) - 1].low = 96
             /\ bk_df[Len(bk_df)].low = 94
             /\ 10 * bk_df[Len(bk_df)].volume * TrailingCount(bk_df)
                   = 13 * TrailingVolume(bk_df) )
           => bk_result = [breakout |-> TRUE, level_type |-> "support",
                           price |-> 95, strength |-> 80]

\* the scenario of C14, reported as a support breakout
C14_Witness ==
    /\ BkReturned
    /\ bk_confirm
    /\ Len(bk_df) > VolumeWindow
    /\ bk_levels = [support_levels |-> <<SupportExample>>, resistance_levels |-> <<>>]
    /\ bk_df[Len(bk_df) - 1].low = 96
    /\ bk_df[Len(bk_df)].low = 94
    /\ 10 * bk_df[Len(bk_df)].volume * TrailingCount(bk_df) = 13 * TrailingVolume(bk_df)
    /\ bk_result.breakout
    /\ bk_result.price = 95

----------------------------------------------------------------------------
(* Claims about the pattern detectors *)

PtReturned(detector) == pt_pc = "returned" /\ pt_call = detector

\* the positions i such that the swing points i and i + 1 are within 1%
ClosePairs(prices, swings) ==
    {i \in 1..(Len(swings) - 1) :
        100 * Abs(prices[swings[i]] - prices[swings[i + 1]])
           < Max2(prices[swings[i]], prices[swings[i + 1]])}

\* the lowest of the values a .. b
IsLowest(x, values, a, b) ==
    /\ \E j \in a..b : values[j] = x
    /\ \A j \in a..b : values[j] >= x

IsHighest(x, values, a, b) ==
    /\ \E j \in a..b : values[j] = x
    /\ \A j \in a..b : values[j] <= x

IsInt(x, n) == x.kind = "fin" /\ x.num = n * x.den

\* C15: on at least 20 bars, if two consecutive swing highs lie within
\* price_tolerance of each other, detect_double_top returns for the first
\* such pair a BEARISH DOUBLE_TOP whose neckline is the lowest low from the
\* first peak up to the second and whose target is neckline - (peak -
\* neckline); detect_double_bottom mirrors it with the highest high and
\* neckline + (neckline - bottom).  On 150 flat bars at 100 with peaks of
\* 110 at bars 20 and 41 and a trough of 95 at bar 30 the neckline is 95,
\* the target 80, the direction BEARISH.
C15_DoubleTopBottom ==
    /\ (PtReturned("detect_double_top") /\ Len(pt_df) >= MinPatternLength) =>
          LET swings == FindPeaks(Highs(pt_df))
              close == ClosePairs(Highs(pt_df), swings)
          IN /\ close # {} =>
                  LET p1 == swings[First(close)]
                      p2 == swings[First(close) + 1]
                  IN /\ pt_result.pattern_type = "DOUBLE_TOP"
                     /\ pt_result.pattern_direction = "BEARISH"
                     /\ pt_result.neckline.den = 1
                     /\ IsLowest(pt_result.neckline.num, Lows(pt_df), p1, p2 - 1)
                     /\ IsInt(pt_result.target_price,
                              pt_result.neckline.num
                                - (pt_df[p1].high - pt_result.neckline.num))
             /\ pt_df = ExampleSeries =>
                  /\ IsInt(pt_result.neckline, 95)
                  /\ IsInt(pt_result.target_price, 80)
                  /\ pt_result.pattern_direction = "BEARISH"
    /\ (PtReturned("detect_double_bottom") /\ Len(pt_df) >= MinPatternLength) =>
          LET swings == FindPeaks(Negated(Lows(pt_df)))
              close == ClosePairs(Lows(pt_df), swings)
          IN close # {} =>
                  LET b1 == swings[First(close)]
                      b2 == swings[First(close) + 1]
                  IN /\ pt_result.pattern_type = "DOUBLE_BOTTOM"
                     /\ pt_result.pattern_direction = "BULLISH"
                     /\ pt_result.neckline.den = 1
                     /\ IsHighest(pt_result.neckline.num, Highs(pt_df), b1, b2 - 1)
                     /\ IsInt(pt_result.target_price,
                              pt_result.neckline.num
                                + (pt_result.neckline.num - pt_df[b1].low))

\* the 150-bar scenario, detected
C15_Witness ==
    /\ PtReturned("detect_double_top")
    /\ pt_df = ExampleSeries
    /\ pt_result.pattern_type = "DOUBLE_TOP"
    /\ IsInt(pt_result.neckline, 95)
    /\ IsInt(pt_result.target_price, 80)

\* C16: the completion of a double top is the share of the way from the
\* peak down to the neckline that the latest high has gone: 0 at the peak,
\* (peak - high) / (peak - neckline) in between, 1 at or below the neckline;
\* the completion of a double bottom is the same share of the way from the
\* bottom up to the neckline for the latest low.
C16_CompletionRetraces ==
    /\ (PtReturned("detect_double_top") /\ pt_result.pattern_type = "DOUBLE_TOP") =>
          LET peak == pt_result.first_price
              neck == pt_result.neckline.num
              cur == pt_df[Len(pt_df)].high
              c == pt_result.completion_percentage
          IN /\ cur = peak => IsInt(c, 0)
             /\ cur <= neck => IsInt(c, 1)
             /\ (neck < cur /\ cur < peak) =>
                   (c.kind = "fin" /\ REq(c, Ratio(peak - cur, peak - neck)))
    /\ (PtReturned("detect_double_bottom") /\ pt_result.pattern_type = "DOUBLE_BOTTOM") =>
          LET bottom == pt_result.first_price
              neck == pt_result.neckline.num
              cur == pt_df[Len(pt_df)].low
              c == pt_result.completion_percentage
          IN /\ cur = bottom => IsInt(c, 0)
             /\ cur >= neck => IsInt(c, 1)
             /\ (bottom < cur /\ cur < neck) =>
                   (c.kind = "fin" /\ REq(c, Ratio(cur - bottom, neck - bottom)))

\* C17: every pattern record that HeadShouldersPattern.detect or a detector
\* of ChartPatternDetector returns has a completion_percentage that is a
\* number in [0, 1].
C17_CompletionInUnitInterval ==
    (pt_pc = "returned" /\ pt_result # NoChart) =>
        LET c == pt_result.completion_percentage
        IN /\ c.kind = "fin"
           /\ c.den > 0
           /\ 0 <= c.num
           /\ c.num <= c.den

\* a double top whose latest high stands above its peaks, and whose
\* completion is 1
C17_Witness ==
    /\ PtReturned("detect_double_top")
    /\ pt_result.pattern_type = "DOUBLE_TOP"
    /\ pt_df[Len(pt_df)].high > pt_result.first_price
    /\ IsInt(pt_result.completion_percentage, 1)

\* the positions i such that the swing points i, i + 1, i + 2 are a head
\* between two lower shoulders that differ by less than 10%
HeadTriples(prices, swings) ==
    {i \in 1..(Len(swings) - 2) :
        /\ prices[swings[i + 1]] > prices[swings[i]]
        /\ prices[swings[i + 1]] > prices[swings[i + 2]]
        /\ 10 * Abs(prices[swings[i]] - prices[swings[i + 2]])
              < Max2(prices[swings[i]], prices[swings[i + 2]])}

\* the same with a head below two higher shoulders
InverseTriples(prices, swings) ==
    {i \in 1..(Len(swings) - 2) :
        /\ prices[swings[i + 1]] < prices[swings[i]]
        /\ prices[swings[i + 1]] < prices[swings[i + 2]]
        /\ 10 * Abs(prices[swings[i]] - prices[swings[i + 2]])
              < Max2(prices[swings[i]], prices[swings[i + 2]])}

\* C18: the neckline of a head-and-shoulders pattern is the average of the
\* two trough lows that flank the head (of the two peak highs that flank it,
\* for the inverse pattern), and the target is neckline - (head - neckline)
\* (neckline + (neckline - head) for the inverse pattern).
C18_NecklineThroughFlanks ==
    (PtReturned("detect") /\ pt_result # NoChart) =>
        /\ pt_result.pattern_type = "HEAD_AND_SHOULDERS" =>
              LET swings == FindPeaks(Highs(pt_df))
                  i == First(HeadTriples(Highs(pt_df), swings))
              IN /\ REq(pt_result.neckline,
                        HsCalculateNeckline_Flanks(pt_df, swings[i], swings[i + 1],
                                                   swings[i + 2], FALSE))
                 /\ REq(pt_result.target_price,
                        RSub(pt_result.neckline,
                             RSub(FromInt(pt_df[swings[i + 1]].high), pt_result.neckline)))
        /\ pt_result.pattern_type = "INVERSE_HEAD_AND_SHOULDERS" =>
              LET swings == FindPeaks(Negated(Lows(pt_df)))
                  i == First(InverseTriples(Lows(pt_df), swings))
              IN /\ REq(pt_result.neckline,
                        HsCalculateNeckline_Flanks(pt_df, swings[i], swings[i + 1],
                                                   swings[i + 2], TRUE))
                 /\ REq(pt_result.target_price,
                        RAdd(pt_result.neckline,
                             RSub(pt_result.neckline, FromInt(pt_df[swings[i + 1]].low))))

----------------------------------------------------------------------------
(* Claims about short series and repeated calls *)

\* the shortest series on which the detector looks for anything
MinWindow(detector) ==
    CASE detector = "analyze" -> CandleWindow
      [] detector = "rsi_analyze" -> DefaultPeriod + 1
      [] detector = "find_levels" -> LevelsMinBars
      [] detector = "check_breakout" -> 2
      [] detector = "detect" -> MinPatternLength
      [] detector = "detect_all" -> MinPatternLength

\* C22: on a series shorter than its minimum window every detector has a
\* return value, and it is the detector's absent value: analyze None, the RSI
\* analysis no RSI with a NEUTRAL signal, find_levels no levels,
\* check_breakout no breakout, detect None, every chart detector None and
\* detect_all the empty list, generate_signal None.
C22_ShortHistoryIsAbsence ==
    /\ ss_pc = "open" =>
          \A d \in SessionDetectors :
             Len(ss_df) < MinWindow(d) =>
                /\ Output(d, ss_df, ss_fit, ss_levels) = Absent(d)
                /\ ss_calls[d] > 0 => (ss_first[d] = Absent(d) /\ ss_last[d] = Absent(d))
    /\ (ss_pc = "open" /\ ss_calls["detect_all"] > 0 /\ Len(ss_df) < MinPatternLength) =>
          /\ DetectDoubleTop(ss_df) = NoChart
          /\ DetectDoubleBottom(ss_df) = NoChart
          /\ DetectTriangle(ss_df, ss_fit) = NoChart
          /\ DetectFlag(ss_df, ss_fit) = NoChart
          /\ DetectPennant(ss_df, ss_fit) = NoChart
          /\ DetectWedge(ss_df, ss_fit) = NoChart
          /\ DetectRectangle(ss_df, ss_fit) = NoChart
    /\ (gen_pc = "idle" /\ df.len < MinBars) => InsufficientData(df)
    /\ (Returned /\ df.len < MinBars) => result = NoSignal

\* 19 bars with two equal peaks and a dip between them, on which detect_all
\* and detect were called and found nothing
C22_Witness ==
    /\ ss_pc = "open"
    /\ Len(ss_df) = MinPatternLength - 1
    /\ ss_df[SpikeAt[1]].high = 100
    /\ ss_df[SpikeAt[2]].high = 100
    /\ ss_calls["detect_all"] > 0
    /\ ss_calls["detect"] > 0
    /\ ss_last["detect_all"] = <<>>
    /\ ss_last["detect"] = NoChart

----------------------------------------------------------------------------
(* Claims about the market data *)

\* C24: validate_ohlcv raises when a required column is missing; otherwise
\* the rows it returns have strictly ascending timestamps (ascending, none
\* twice), positive volumes and no missing value.
C24_ValidatedSeries ==
    /\ vd_pc = "raised" => ~(RequiredColumns \subseteq vd_columns)
    /\ vd_pc = "returned" =>
          /\ RequiredColumns \subseteq vd_columns
          /\ \A i \in 1..Len(vd_result) :
                /\ vd_result[i].volume > 0
                /\ ~vd_result[i].missing
          /\ \A i \in 1..(Len(vd_result) - 1) :
                vd_result[i].timestamp < vd_result[i + 1].timestamp

\* the invocations in the log, and the sleeps
Calls == SelectSeq(rt_log, LAMBDA e : e.event = "call")

Sleeps == SelectSeq(rt_log, LAMBDA e : e.event = "sleep")

RECURSIVE Power(_, _)
Power(b, n) == IF n = 0 THEN 1 ELSE b * Power(b, n - 1)

\* C27: with max_attempts = n >= 1 the function is invoked at most n times;
\* the first value it returns is returned at once; when all n invocations
\* raise a listed exception the last one is raised; the wrapper sleeps only
\* between two invocations, never after the last failure or after a success,
\* for initial_delay before the second invocation and backoff_factor times
\* the previous delay before each later one.
C27_RetryWithBackoff ==
    (rt_pc \in {"loop", "returned", "raised"} /\ rt_max >= 1) =>
        /\ Len(Calls) <= rt_max
        /\ \A k \in 1..Len(Calls) : Calls[k].attempt = k
        /\ rt_pc = "returned" =>
              /\ rt_result = [kind |-> "value", attempt |-> Len(Calls)]
              /\ rt_func[Len(Calls)] = "value"
              /\ \A k \in 1..(Len(Calls) - 1) : rt_func[k] = "listed"
              /\ rt_log[Len(rt_log)].event = "call"
        /\ (rt_pc = "raised" /\ \A k \in 1..rt_max : rt_func[k] = "listed") =>
              /\ Len(Calls) = rt_max
              /\ rt_result = ExceptionOf("listed", rt_max)
        /\ rt_pc \in {"returned", "raised"} =>
              /\ Len(rt_log) >= 1
              /\ rt_log[Len(rt_log)].event = "call"
              /\ Len(Sleeps) = Len(Calls) - 1
        /\ \A i \in 1..Len(rt_log) :
              rt_log[i].event = "sleep" =>
                  /\ i > 1
                  /\ rt_log[i - 1].event = "call"
                  /\ rt_func[rt_log[i - 1].attempt] = "listed"
                  /\ rt_log[i - 1].attempt < rt_max
        /\ \A j \in 1..Len(Sleeps) :
              Sleeps[j].delay = rt_initial_delay * Power(rt_factor, j - 1)

\* three invocations failed with a listed exception, two sleeps lie between
\* them and the third exception was raised
C27_Witness ==
    /\ rt_pc = "raised"
    /\ rt_max = 3
    /\ Len(Calls) = 3
    /\ Len(Sleeps) = 2
    /\ rt_result = ExceptionOf("listed", 3)

----------------------------------------------------------------------------
(* Claims about the screener *)

\* C28: analyze_asset on at least 100 stored bars with a breakout records
\* the breakout and completes: the result has current_price, rsi, levels and
\* breakout, and the later steps (pattern, chart patterns, signal and their
\* persistence) have run; the result is not empty.
C28_BreakoutCompletes ==
    (an_pc = "returned" /\ an_df.len >= MinBars /\ an_df.breakout.breakout) =>
        /\ {"current_price", "rsi", "levels", "breakout"} \subseteq an_results
        /\ an_df.pattern => "pattern" \in an_results
        /\ an_df.chart_patterns > 0 => "chart_patterns" \in an_results
        /\ an_df.signal =>
              /\ "signal" \in an_results
              /\ an_saved # <<>>
              /\ an_saved[Len(an_saved)] = "save_signal"

\* C29: after any sequence of fetch_and_save_data calls for one asset and
\* timeframe, get_candles returns the rows in ascending order of time with
\* no timestamp twice, and the table holds no two rows of one timestamp.
C29_StoredSeriesUnique ==
    /\ \A i \in 1..(Len(db_df) - 1) : db_df[i].timestamp < db_df[i + 1].timestamp
    /\ \A i, j \in 1..Len(db_candles) :
          db_candles[i].timestamp = db_candles[j].timestamp => i = j

----------------------------------------------------------------------------
(* Specifications *)

\* the signal aggregator
Init == GenInit /\ CsOff /\ RsiOff /\ LvOff /\ BkOff /\ PtOff /\ SsOff /\ VdOff /\ RtOff /\ AnOff /\ DbOff

Next == GenNext /\ UNCHANGED <<csVars, rsiVars, lvVars, bkVars, ptVars, ssVars, vdVars, rtVars, anVars, dbVars>>

Spec == Init /\ [][Next]_vars

\* the candlestick analyzer
InitCandle == CsInit /\ GenOff /\ RsiOff /\ LvOff /\ BkOff /\ PtOff /\ SsOff /\ VdOff /\ RtOff /\ AnOff /\ DbOff

NextCandle == CsNext /\ UNCHANGED <<genVars, rsiVars, lvVars, bkVars, ptVars, ssVars, vdVars, rtVars, anVars, dbVars>>

SpecCandle == InitCandle /\ [][NextCandle]_vars

\* RSICalculator.analyze
InitRsi == RsiInit /\ GenOff /\ CsOff /\ LvOff /\ BkOff /\ PtOff /\ SsOff /\ VdOff /\ RtOff /\ AnOff /\ DbOff

NextRsi == RsiAnalyze /\ UNCHANGED <<genVars, csVars, lvVars, bkVars, ptVars, ssVars, vdVars, rtVars, anVars, dbVars>>

SpecRsi == InitRsi /\ [][NextRsi]_vars

\* RSICalculator.get_signal
InitRsiSignal == RsiValueInit /\ GenOff /\ CsOff /\ LvOff /\ BkOff /\ PtOff /\ SsOff /\ VdOff /\ RtOff /\ AnOff /\ DbOff

NextRsiSignal == GetSignalCall /\ UNCHANGED <<genVars, csVars, lvVars, bkVars, ptVars, ssVars, vdVars, rtVars, anVars, dbVars>>

SpecRsiSignal == InitRsiSignal /\ [][NextRsiSignal]_vars

\* SupportResistanceAnalyzer.find_levels
InitLevels == LvInit /\ GenOff /\ CsOff /\ RsiOff /\ BkOff /\ PtOff /\ SsOff /\ VdOff /\ RtOff /\ AnOff /\ DbOff

NextLevels == FindLevelsCall /\ UNCHANGED <<genVars, csVars, rsiVars, bkVars, ptVars, ssVars, vdVars, rtVars, anVars, dbVars>>

SpecLevels == InitLevels /\ [][NextLevels]_vars

\* SupportResistanceAnalyzer.check_breakout
InitBreakout == BkInit /\ GenOff /\ CsOff /\ RsiOff /\ LvOff /\ PtOff /\ SsOff /\ VdOff /\ RtOff /\ AnOff /\ DbOff

NextBreakout == CheckBreakoutCall /\ UNCHANGED <<genVars, csVars, rsiVars, lvVars, ptVars, ssVars, vdVars, rtVars, anVars, dbVars>>

SpecBreakout == InitBreakout /\ [][NextBreakout]_vars

\* ChartPatternDetector and HeadShouldersPattern
InitPatterns == PtInit /\ GenOff /\ CsOff /\ RsiOff /\ LvOff /\ BkOff /\ SsOff /\ VdOff /\ RtOff /\ AnOff /\ DbOff

NextPatterns == PtNext /\ UNCHANGED <<genVars, csVars, rsiVars, lvVars, bkVars, ssVars, vdVars, rtVars, anVars, dbVars>>

SpecPatterns == InitPatterns /\ [][NextPatterns]_vars

\* the detectors called again and again on one series, and generate_signal
\* on the series below its window
InitSession ==
    /\ \/ SsInit /\ GenOff
       \/ SsOff /\ HistoryInit
    /\ CsOff /\ RsiOff /\ LvOff /\ BkOff /\ PtOff /\ DbOff /\ AnOff /\ RtOff /\ VdOff

NextSession ==
    \/ SsNext /\ UNCHANGED <<genVars, csVars, rsiVars, lvVars, bkVars, ptVars, vdVars, rtVars, anVars, dbVars>>
    \/ GenerateSignalShort /\ UNCHANGED <<csVars, rsiVars, lvVars, bkVars, ptVars, ssVars, vdVars, rtVars, anVars, dbVars>>

SpecSession == InitSession /\ [][NextSession]_vars

InitValidate == VdInit /\ GenOff /\ CsOff /\ RsiOff /\ LvOff /\ BkOff /\ PtOff /\ SsOff /\ RtOff /\ AnOff /\ DbOff

NextValidate == VdNext /\ UNCHANGED <<genVars, csVars, rsiVars, lvVars, bkVars, ptVars, ssVars, rtVars, anVars, dbVars>>

SpecValidate == InitValidate /\ [][NextValidate]_vars

InitRetry == RtInit /\ GenOff /\ CsOff /\ RsiOff /\ LvOff /\ BkOff /\ PtOff /\ SsOff /\ VdOff /\ AnOff /\ DbOff

NextRetry == RtNext /\ UNCHANGED <<genVars, csVars, rsiVars, lvVars, bkVars, ptVars, ssVars, vdVars, anVars, dbVars>>

SpecRetry == InitRetry /\ [][NextRetry]_vars

InitAnalyze == AnInit /\ GenOff /\ CsOff /\ RsiOff /\ LvOff /\ BkOff /\ PtOff /\ SsOff /\ VdOff /\ RtOff /\ DbOff

NextAnalyze == AnNext /\ UNCHANGED <<genVars, csVars, rsiVars, lvVars, bkVars, ptVars, ssVars, vdVars, rtVars, dbVars>>

SpecAnalyze == InitAnalyze /\ [][NextAnalyze]_vars

InitStore == DbInit /\ GenOff /\ CsOff /\ RsiOff /\ LvOff /\ BkOff /\ PtOff /\ SsOff /\ VdOff /\ RtOff /\ AnOff

NextStore == DbNext /\ UNCHANGED <<genVars, csVars, rsiVars, lvVars, bkVars, ptVars, ssVars, vdVars, rtVars, anVars>>

SpecStore == InitStore /\ [][NextStore]_vars

====
